---- MODULE Spec2Model ----
(***************************************************************************)
(* DocChamp: structured-response repair (app.py), receipt region detector  *)
(* (document_extractor.py), language-model client and factory              *)
(* (ai_service.py) and the Streamlit session handlers (app.py).            *)
(*                                                                         *)
(* Texts are sequences of one-character strings (the grave accent is the   *)
(* atom BT).                                                               *)
(***************************************************************************)
EXTENDS Integers, Sequences, FiniteSets, TLC

VARIABLES
    rp_in,      \* repair: the text handed to extract_json_from_text
    rp_x,       \* repair: the JSON object embedded in rp_in (<<>> for raw text)
    rp_out,     \* repair: outcome of extract_json_from_text(rp_in)
    rp_re,      \* repair: outcome of the call on the re-fenced output
    rp_pc,      \* repair: "ready" | "done" | "refenced"
    dt_image,   \* detector: the input image [W, H, info_empty]
    dt_opencv,  \* detector: OPENCV_AVAILABLE
    dt_pc,      \* detector: position inside detect_and_crop_receipt
    dt_white,   \* detector: result of detect_white_background_region
    dt_m,       \* detector: index of the threshold method being tried
    dt_k,       \* detector: index of the kernel size being tried
    dt_best,    \* detector: the largest and approx of best_result (NoBest is None)
    dt_score,   \* detector: best_score
    dt_errs,    \* detector: the stages in which an exception was raised
    dt_out,     \* detector: what the call gave back
    dt_outs,    \* detector: what the three threshold rounds of the white pass find
    dt_log,     \* detector: the outcomes of the fallback rounds, in order
    ch_service, \* chat request: "openai" | "ollama"
    ch_history, \* chat request: the history argument
    ch_doc,     \* chat request: the document_text argument
    ch_msg,     \* chat request: the user_message argument
    ch_messages,\* chat request: the messages handed to the backend
    ch_pc,      \* chat request: "ready" | "sent"
    ol_mode,    \* local backend: "sequential" | "interleaved" callers
    ol_lib,     \* local backend: the ollama package is installed
    ol_env,     \* local backend: os.environ['OLLAMA_HOST'] ("unset" if absent)
    ol_env0,    \* local backend: the override before the first call
    ol_pc,      \* local backend: position of each call
    ol_call,    \* local backend: operation and base_url of each call
    ol_orig,    \* local backend: original_host of each call
    ol_before,  \* local backend: the override when each call was entered
    ol_reqenv,  \* local backend: the override when each call's request was made
    ol_result,  \* local backend: how each call ended
    ol_requests, \* ollama / openai: per call, the requests the client library made
    ol_failure, \* ollama: per call, what the backend request raised ("none" if nothing)
    fa_tag,     \* factory: the service_type argument
    fa_kwargs,  \* factory: the keyword arguments
    fa_result,  \* factory: the service created, or the error raised
    fa_pc,      \* factory: "ready" | "done"
    chat_history,      \* session: st.session_state.chat_history
    document_text,     \* session: st.session_state.document_text
    document_name,     \* session: st.session_state.document_name
    ai_service,        \* session: st.session_state.ai_service
    receipt_data,      \* session: st.session_state.receipt_data
    receipt_image,     \* session: st.session_state.receipt_image
    purchase_analysis, \* session: st.session_state.purchase_analysis
    sent_history,      \* session: the history entries of the last chat request
    ex_file,    \* extraction: the uploaded file [type, name]
    ex_pc,      \* extraction: position inside extract_text and its extractor
    ex_route,   \* extraction: the extractor chosen by extract_text
    ex_read,    \* extraction: has file.read() been called?
    ex_bytes,   \* extraction: what the bytes of the image file are
    ex_mode,    \* extraction: the mode of the image in hand
    ex_stages,  \* extraction: the stages run so far, with the image mode given to each
    ex_tier,    \* extraction: the OCR language tier to try next
    ex_text,    \* extraction: the text returned by the OCR engine
    ex_pos,     \* extraction: the read position of the file object, "start" | "end"
    ex_first,   \* extraction: how the first of two calls on the file went
    ex_result   \* extraction: how extract_text ended

repairVars == <<rp_in, rp_x, rp_out, rp_re, rp_pc>>

detectVars == <<dt_image, dt_opencv, dt_pc, dt_white, dt_m, dt_k, dt_best,
                dt_score, dt_errs, dt_out, dt_outs, dt_log>>

chatVars == <<ch_service, ch_history, ch_doc, ch_msg, ch_messages, ch_pc>>

ollamaVars == <<ol_mode, ol_lib, ol_env, ol_env0, ol_pc, ol_call, ol_orig,
                ol_before, ol_reqenv, ol_result, ol_failure, ol_requests>>

factoryVars == <<fa_tag, fa_kwargs, fa_result, fa_pc>>

sessionVars == <<chat_history, document_text, document_name, ai_service,
                 receipt_data, receipt_image, purchase_analysis, sent_history>>

extractVars == <<ex_file, ex_pc, ex_route, ex_read, ex_bytes, ex_mode,
                 ex_stages, ex_tier, ex_text, ex_result, ex_pos, ex_first>>

vars == <<repairVars, detectVars, chatVars, ollamaVars, factoryVars, sessionVars,
          extractVars>>

\* ------------------------------------------------------------------------
\* Bounds
\* ------------------------------------------------------------------------
MaxRawLen == 4

\* longest history handed to chat
MaxHistory == 12

\* number of local-backend calls
NumCalls == 2

\* longest stored conversation; a handler that would pass it is not run
MaxStored == 14

\* number of manual crops of one uploaded image
MaxCrops == 1

\* number of turns of one conversation other than an answered chat turn: a
\* button pair, a chat turn whose call raises, a chat turn whose script run
\* is ended early
MaxOtherTurns == 1

\* ------------------------------------------------------------------------
\* Characters and text helpers
\* ------------------------------------------------------------------------
Q == "\""
BS == "\\"
\* the grave accent (U+0060); the string syntax of TLA+ cannot hold it
BT == "GRAVE"
LB == "{"
RB == "}"
NL == "\n"
SP == " "

\* A character that the string syntax of TLA+ cannot hold is written as its
\* code point, "U+000B" for the vertical tab.  A run of equal characters
\* too long to write out is one element of a text, written as in Python:
\* "9*4301" for '9' * 4301.
DigitRuns == {"9*4301"}

OpenRuns == {"[*1000"}

CloseRuns == {"]*1000"}

\* the number of characters an element of a text stands for
RunLength(c) ==
    CASE c = "9*4301" -> 4301
      [] c \in {"[*1000", "]*1000"} -> 1000
      [] OTHER -> 1

\* str.strip() and the regex class \s of a str pattern: the characters for
\* which str.isspace() is true
PyWhitespace ==
    {"\t", "\n", "U+000B", "\f", "\r", "U+001C", "U+001D", "U+001E", "U+001F", " ",
     "U+0085", "U+00A0", "U+1680", "U+2000", "U+2001", "U+2002", "U+2003",
     "U+2004", "U+2005", "U+2006", "U+2007", "U+2008", "U+2009", "U+200A",
     "U+2028", "U+2029", "U+202F", "U+205F", "U+3000"}

\* json.decoder.WHITESPACE: [ \t\n\r]*
JsonWhitespace == {" ", "\n", "\t", "\r"}

Digits == {"0", "1", "2", "3", "4", "5", "6", "7", "8", "9"}

HexDigits == Digits \cup {"a", "b", "c", "d", "e", "f", "A", "B", "C", "D", "E", "F"}

Sub(s, a, b) == IF a > b THEN <<>> ELSE SubSeq(s, a, b)

Drop(s, n) == Sub(s, n + 1, Len(s))

\* does s hold the characters of p from position i on?
MatchAt(s, i, p) ==
    /\ i + Len(p) - 1 <= Len(s)
    /\ \A k \in 1..Len(p) : s[i + k - 1] = p[k]

RECURSIVE SkipSet(_, _, _)
\* first position >= i whose character is not in set (Len(s) + 1 if none)
SkipSet(s, i, set) ==
    IF i <= Len(s) /\ s[i] \in set THEN SkipSet(s, i + 1, set) ELSE i

RECURSIVE LStrip(_)
LStrip(s) == IF s # <<>> /\ Head(s) \in PyWhitespace THEN LStrip(Tail(s)) ELSE s

RECURSIVE RStrip(_)
RStrip(s) ==
    IF s # <<>> /\ s[Len(s)] \in PyWhitespace THEN RStrip(Sub(s, 1, Len(s) - 1)) ELSE s

\* str.strip()
Strip(s) == RStrip(LStrip(s))

\* str.find('{'): 1-based position of the first c, 0 when absent
Find(s, c) ==
    IF \E i \in 1..Len(s) : s[i] = c
    THEN CHOOSE i \in 1..Len(s) : s[i] = c /\ \A k \in 1..(i - 1) : s[k] # c
    ELSE 0

\* ------------------------------------------------------------------------
\* json.loads: a recogniser for the grammar of the Python json scanner.
\* Each Parse* operator takes a text and a 1-based position and gives the
\* position after the parsed item, or what the scanner raises there:
\* 0 for JSONDecodeError, DigitLimitError for the ValueError of int() on
\* more than IntMaxStrDigits digits, DepthError for RecursionError.
\* ------------------------------------------------------------------------
DigitLimitError == -1

DepthError == -2

\* sys.get_int_max_str_digits()
IntMaxStrDigits == 4300

\* sys.getrecursionlimit()
RecursionLimit == 1000

\* the frames below the scanner when extract_json_from_text is called from
\* a module: the module, extract_json_from_text, loads, decode, raw_decode;
\* a deeper caller has more
JsonFrames == 5

\* the scanner enters a container with depth containers already open
TooDeep(depth) == depth + 1 + JsonFrames >= RecursionLimit

RECURSIVE DigitCount(_, _, _)
\* the number of digits of s[a..b-1]
DigitCount(s, a, b) ==
    IF a >= b THEN 0 ELSE RunLength(s[a]) + DigitCount(s, a + 1, b)

RECURSIVE HexAhead(_, _, _)
\* the position after need hexadecimal digits from position i on, 0 when
\* there are fewer; a run of digits holds all that are needed
HexAhead(s, i, need) ==
    IF need = 0 THEN i
    ELSE IF i > Len(s) THEN 0
    ELSE IF s[i] \in DigitRuns THEN i + 1
    ELSE IF s[i] \in HexDigits THEN HexAhead(s, i + 1, need - 1)
    ELSE 0

SkipJsonWs(s, i) == SkipSet(s, i, JsonWhitespace)

\* json.decoder.STRINGCHUNK: the characters \x00-\x1f end a chunk and are
\* rejected inside strings (strict mode)
JsonControl ==
    {"U+0000", "U+0001", "U+0002", "U+0003", "U+0004", "U+0005", "U+0006", "U+0007",
     "U+0008", "\t", "\n", "U+000B", "\f", "\r", "U+000E", "U+000F",
     "U+0010", "U+0011", "U+0012", "U+0013", "U+0014", "U+0015", "U+0016", "U+0017",
     "U+0018", "U+0019", "U+001A", "U+001B", "U+001C", "U+001D", "U+001E", "U+001F"}

SimpleEscapes == {Q, BS, "/", "b", "f", "n", "r", "t"}

RECURSIVE ParseStringBody(_, _)
\* i is the position after the opening quote
ParseStringBody(s, i) ==
    IF i > Len(s) THEN 0
    ELSE IF s[i] = Q THEN i + 1
    ELSE IF s[i] \in JsonControl THEN 0
    ELSE IF s[i] = BS THEN
        IF i + 1 > Len(s) THEN 0
        ELSE IF s[i + 1] \in SimpleEscapes THEN ParseStringBody(s, i + 2)
        ELSE IF s[i + 1] = "u" THEN
            IF HexAhead(s, i + 2, 4) # 0
            THEN ParseStringBody(s, HexAhead(s, i + 2, 4))
            ELSE 0
        ELSE 0
    ELSE ParseStringBody(s, i + 1)

\* integer part -?(0|[1-9][0-9]*), then optional .digits, then optional
\* exponent; an incomplete fraction or exponent is left unconsumed.  A
\* number without fraction and exponent is converted by int(), which
\* raises ValueError on more than IntMaxStrDigits digits; the others are
\* converted by float(), which has no limit
ParseNumber(s, i) ==
    LET AllDigits == Digits \cup DigitRuns
        j == IF i <= Len(s) /\ s[i] = "-" THEN i + 1 ELSE i
        afterInt ==
            IF j > Len(s) \/ s[j] \notin AllDigits THEN 0
            ELSE IF s[j] = "0" THEN j + 1
            ELSE SkipSet(s, j, AllDigits)
        afterFrac ==
            IF afterInt = 0 THEN 0
            ELSE IF afterInt + 1 <= Len(s) /\ s[afterInt] = "."
                    /\ s[afterInt + 1] \in AllDigits
                 THEN SkipSet(s, afterInt + 1, AllDigits)
                 ELSE afterInt
        expDigits ==
            IF afterFrac = 0 \/ afterFrac > Len(s) \/ s[afterFrac] \notin {"e", "E"}
            THEN 0
            ELSE IF afterFrac + 1 <= Len(s) /\ s[afterFrac + 1] \in {"+", "-"}
                 THEN afterFrac + 2
                 ELSE afterFrac + 1
    IN  IF afterFrac = 0 THEN 0
        ELSE IF expDigits # 0 /\ expDigits <= Len(s) /\ s[expDigits] \in AllDigits
             THEN SkipSet(s, expDigits, AllDigits)
             ELSE IF afterFrac = afterInt /\ DigitCount(s, j, afterInt) > IntMaxStrDigits
                  THEN DigitLimitError
                  ELSE afterFrac

LitNull == <<"n", "u", "l", "l">>
LitTrue == <<"t", "r", "u", "e">>
LitFalse == <<"f", "a", "l", "s", "e">>
LitNaN == <<"N", "a", "N">>
LitInfinity == <<"I", "n", "f", "i", "n", "i", "t", "y">>

RECURSIVE ParseValue(_, _, _)
RECURSIVE ParseMembers(_, _, _)
RECURSIVE ParseElements(_, _, _)

\* i is the position of the first key's opening quote candidate; depth
\* counts the containers open around the members
ParseMembers(s, i, depth) ==
    IF i > Len(s) \/ s[i] # Q THEN 0
    ELSE LET k == ParseStringBody(s, i + 1)
             c == IF k = 0 THEN 0 ELSE SkipJsonWs(s, k)
         IN  IF k = 0 \/ c > Len(s) \/ s[c] # ":" THEN 0
             ELSE LET v == ParseValue(s, SkipJsonWs(s, c + 1), depth)
                      d == IF v <= 0 THEN 0 ELSE SkipJsonWs(s, v)
                  IN  IF v <= 0 THEN v
                      ELSE IF d > Len(s) THEN 0
                      ELSE IF s[d] = RB THEN d + 1
                      ELSE IF s[d] = "," THEN ParseMembers(s, SkipJsonWs(s, d + 1), depth)
                      ELSE 0

\* i is the position of the first element
ParseElements(s, i, depth) ==
    LET v == ParseValue(s, i, depth)
        d == IF v <= 0 THEN 0 ELSE SkipJsonWs(s, v)
    IN  IF v <= 0 THEN v
        ELSE IF d > Len(s) THEN 0
        ELSE IF s[d] = "]" THEN d + 1
        ELSE IF s[d] = "," THEN ParseElements(s, SkipJsonWs(s, d + 1), depth)
        ELSE 0

\* scan_once: an object or an array is entered by a recursive call, which
\* raises RecursionError at the limit; a run of opening brackets is that
\* many arrays entered one inside the other
ParseValue(s, i, depth) ==
    IF i > Len(s) THEN 0
    ELSE IF s[i] = Q THEN ParseStringBody(s, i + 1)
    ELSE IF s[i] = LB THEN
        LET j == SkipJsonWs(s, i + 1)
        IN  IF TooDeep(depth) THEN DepthError
            ELSE IF j <= Len(s) /\ s[j] = RB THEN j + 1
            ELSE ParseMembers(s, j, depth + 1)
    ELSE IF s[i] = "[" THEN
        LET j == SkipJsonWs(s, i + 1)
        IN  IF TooDeep(depth) THEN DepthError
            ELSE IF j <= Len(s) /\ s[j] = "]" THEN j + 1
            ELSE ParseElements(s, j, depth + 1)
    ELSE IF s[i] \in OpenRuns THEN
        IF TooDeep(depth + RunLength(s[i]) - 1) THEN DepthError ELSE 0
    ELSE IF MatchAt(s, i, LitNull) THEN i + 4
    ELSE IF MatchAt(s, i, LitTrue) THEN i + 4
    ELSE IF MatchAt(s, i, LitFalse) THEN i + 5
    ELSE IF MatchAt(s, i, LitNaN) THEN i + 3
    ELSE IF MatchAt(s, i, LitInfinity) THEN i + 8
    ELSE IF MatchAt(s, i, <<"-">> \o LitInfinity) THEN i + 9
    ELSE ParseNumber(s, i)

\* json.loads(s): "returns", or the exception it raises
JsonLoads(s) ==
    LET v == ParseValue(s, SkipJsonWs(s, 1), 0)
    IN  IF v = DigitLimitError THEN "ValueError"
        ELSE IF v = DepthError THEN "RecursionError"
        ELSE IF v # 0 /\ SkipJsonWs(s, v) = Len(s) + 1 THEN "returns"
        ELSE "JSONDecodeError"

\* ------------------------------------------------------------------------
\* extract_json_from_text (app.py)
\* ------------------------------------------------------------------------
\* re.IGNORECASE on the letters of "json" in a str pattern: each letter
\* matches its upper case, and s also U+017F (LATIN SMALL LETTER LONG S)
FenceTagAt(s, i) ==
    /\ i + 6 <= Len(s)
    /\ s[i] = BT /\ s[i + 1] = BT /\ s[i + 2] = BT
    /\ s[i + 3] \in {"j", "J"}
    /\ s[i + 4] \in {"s", "S", "U+017F"}
    /\ s[i + 5] \in {"o", "O"}
    /\ s[i + 6] \in {"n", "N"}

FenceAt(s, i) ==
    /\ i + 2 <= Len(s)
    /\ s[i] = BT /\ s[i + 1] = BT /\ s[i + 2] = BT

RECURSIVE StripTaggedFences(_, _)
\* re.sub(r'```json\s*\n?', '', text, flags=re.IGNORECASE): the matches are
\* taken left to right without overlap; \s* is greedy, so it takes the
\* whole whitespace run (\n? then matches the empty string)
StripTaggedFences(s, i) ==
    IF i > Len(s) THEN <<>>
    ELSE IF FenceTagAt(s, i) THEN StripTaggedFences(s, SkipSet(s, i + 7, PyWhitespace))
    ELSE <<s[i]>> \o StripTaggedFences(s, i + 1)

RECURSIVE StripBareFences(_, _)
\* re.sub(r'```\s*\n?', '', text)
StripBareFences(s, i) ==
    IF i > Len(s) THEN <<>>
    ELSE IF FenceAt(s, i) THEN StripBareFences(s, SkipSet(s, i + 3, PyWhitespace))
    ELSE <<s[i]>> \o StripBareFences(s, i + 1)

StripFences(s) == StripBareFences(StripTaggedFences(s, 1), 1)

\* re.sub(r'^[^{]*?(?=\{)', '', text, flags=re.DOTALL): the text before the
\* first '{' is removed; without a '{' nothing matches
StripLeadingProse(s) ==
    IF Find(s, LB) = 0 THEN s ELSE Drop(s, Find(s, LB) - 1)

RECURSIVE BraceScan(_, _, _)
\* the loop over range(start_idx, len(text)); gives the brace_count at the
\* end of the loop and end_idx as the 1-based position of the closing brace
\* (0 when the loop ran to the end of the text without a break)
BraceScan(s, i, brace_count) ==
    IF i > Len(s) THEN [brace_count |-> brace_count, end_idx |-> 0]
    ELSE IF s[i] = LB THEN BraceScan(s, i + 1, brace_count + 1)
    ELSE IF s[i] = RB THEN
        IF brace_count - 1 = 0 THEN [brace_count |-> 0, end_idx |-> i]
        ELSE BraceScan(s, i + 1, brace_count - 1)
    ELSE BraceScan(s, i + 1, brace_count)

\* the four ValueError raised by the function, by the message each carries:
\*   EmptyResponse  "Tyhja vastaus"
\*   NoJsonFound    "JSON-objektia ei loytynyt vastauksesta"
\*   UnbalancedJson "JSON-objekti on epataydellinen (...)"
\*   InvalidJson    "Poimittu teksti ei ole validi JSON: ..."
\* and what json.loads raises past "except json.JSONDecodeError" at line 235:
\*   DigitLimit     ValueError "Exceeds the limit (4300 digits) for integer
\*                  string conversion"
\*   RecursionError
Raised(e) == [ok |-> FALSE, err |-> e, val |-> <<>>]

Returned(v) == [ok |-> TRUE, err |-> "none", val |-> v]

\* the span taken as text[start_idx:], neither cut at end_idx nor stripped
JsonSpanUncut(text, start_idx, end_idx) == Sub(text, start_idx, Len(text))

\* text[start_idx:end_idx].strip()
JsonSpan(text, start_idx, end_idx) == Strip(Sub(text, start_idx, end_idx))

\* the scan starts at the last opening brace of the text
FindLastBrace(text) ==
    IF \E k \in 1..Len(text) : text[k] = LB
    THEN CHOOSE k \in 1..Len(text) : text[k] = LB /\ \A m \in (k + 1)..Len(text) : text[m] # LB
    ELSE 0

\* text.find('{'), 1-based, 0 when there is none
FindBrace(text) == Find(text, LB)

extract_json_from_text(text) ==
    IF Strip(text) = <<>> THEN Raised("EmptyResponse")
    ELSE
        LET t == StripLeadingProse(StripFences(text))
            start_idx == FindBrace(t)
            scan == BraceScan(t, start_idx, 0)
            json_text == JsonSpan(t, start_idx, scan.end_idx)
        IN  IF start_idx = 0 THEN Raised("NoJsonFound")
            ELSE IF scan.brace_count # 0 THEN Raised("UnbalancedJson")
            ELSE IF JsonLoads(json_text) = "JSONDecodeError" THEN Raised("InvalidJson")
            ELSE IF JsonLoads(json_text) = "ValueError" THEN Raised("DigitLimit")
            ELSE IF JsonLoads(json_text) = "RecursionError" THEN Raised("RecursionError")
            ELSE Returned(json_text)

\* ------------------------------------------------------------------------
\* Receipt region detector (document_extractor.py).
\*
\* An image is its width W, height H, whether its info dictionary is empty,
\* whether its class is that of a file format (what Image.open returns;
\* Image.fromarray and convert return the class Image.Image), and whether
\* its pixel data can be loaded (load() of a truncated file raises OSError).
\* What OpenCV finds in it is an input of the model: every
\* threshold / morphology / findContours round either raises, finds no
\* contour, or finds a largest contour.  The contour (largest) and the
\* polygon that approxPolyDP makes of it (approx) are both given: the area
\* and the bounding box are taken from the contour, the corner count and
\* the corners of the warp from the approximation.  Points are <<x, y>>.
\* ------------------------------------------------------------------------
Abs(n) == IF n < 0 THEN -n ELSE n

Max2(a, b) == IF a > b THEN a ELSE b

Min2(a, b) == IF a < b THEN a ELSE b

\* int(np.sqrt(n)) for the integer n
ISqrt(n) == CHOOSE k \in 0..1000 : k * k <= n /\ n < (k + 1) * (k + 1)

RECURSIVE ShoelaceSum(_, _)
ShoelaceSum(p, i) ==
    IF i > Len(p) THEN 0
    ELSE LET a == p[i]
             b == p[IF i = Len(p) THEN 1 ELSE i + 1]
         IN  a[1] * b[2] - b[1] * a[2] + ShoelaceSum(p, i + 1)

\* twice cv2.contourArea(largest)
ContourArea2(p) == Abs(ShoelaceSum(p, 1))

MinOf(S) == CHOOSE v \in S : \A u \in S : v <= u

MaxOf(S) == CHOOSE v \in S : \A u \in S : v >= u

\* cv2.boundingRect(largest)
BoundingRect(p) ==
    LET xs == {p[i][1] : i \in 1..Len(p)}
        ys == {p[i][2] : i \in 1..Len(p)}
    IN  [x |-> MinOf(xs), y |-> MinOf(ys),
         w |-> MaxOf(xs) - MinOf(xs) + 1, h |-> MaxOf(ys) - MinOf(ys) + 1]

\* the test without its upper limit
AreaRatioAtLeast(area2, image) == 10 * area2 > 2 * image.W * image.H

\* 0.10 < area / image_area < 0.90, on twice the area
AreaRatioOk(area2, image) ==
    /\ 10 * area2 > 2 * image.W * image.H
    /\ 10 * area2 < 18 * image.W * image.H

\* lo/10 < max(w, h) / min(w, h) < hi/10; the ratio is 0 when min(w, h) = 0
AspectBetween(box, lo, hi) ==
    /\ Min2(box.w, box.h) > 0
    /\ 10 * Max2(box.w, box.h) > lo * Min2(box.w, box.h)
    /\ 10 * Max2(box.w, box.h) < hi * Min2(box.w, box.h)

margin == 20

\* the crop with margin without the clamp to the image bounds
CropWithMarginUnclamped(image, box) ==
    LET x == Max2(0, box.x - margin)
        y == Max2(0, box.y - margin)
    IN  [x |-> x, y |-> y, w |-> box.w + 2 * margin, h |-> box.h + 2 * margin]

\* x = max(0, x - margin); y = max(0, y - margin);
\* w = min(shape[1] - x, w + 2 * margin); h = min(shape[0] - y, h + 2 * margin)
CropWithMargin(image, box) ==
    LET x == Max2(0, box.x - margin)
        y == Max2(0, box.y - margin)
    IN  [x |-> x, y |-> y,
         w |-> Min2(image.W - x, box.w + 2 * margin),
         h |-> Min2(image.H - y, box.h + 2 * margin)]

WhiteThresholds == <<200, 180, 220>>

NoRect == [x |-> 0, y |-> 0, w |-> 0, h |-> 0]

\* best_result = None
NoBest == [largest |-> <<>>, approx |-> <<>>]

SameImage == [kind |-> "image", raised |-> FALSE, rect |-> NoRect]

RECURSIVE WhiteLoop(_, _, _)
\* the loop over the thresholds inside the try of
\* detect_white_background_region; outs[t] is what round t finds
WhiteLoop(image, outs, t) ==
    IF t > Len(WhiteThresholds) THEN SameImage
    ELSE IF outs[t].found = "raise" THEN [kind |-> "image", raised |-> TRUE, rect |-> NoRect]
    ELSE IF outs[t].found = "none" THEN WhiteLoop(image, outs, t + 1)
    ELSE LET largest == outs[t].largest
             approx == outs[t].approx
             box == BoundingRect(largest)
         IN  IF /\ AreaRatioOk(ContourArea2(largest), image)
                /\ (Len(approx) >= 4 \/ AspectBetween(box, 12, 60))
             THEN [kind |-> "crop", raised |-> FALSE, rect |-> CropWithMargin(image, box)]
             ELSE WhiteLoop(image, outs, t + 1)

\* np.array(image) at line 58 loads the pixel data inside the try
detect_white_background_region(image, opencv, outs) ==
    IF ~opencv THEN SameImage
    ELSE IF ~image.loadable THEN [kind |-> "image", raised |-> TRUE, rect |-> NoRect]
    ELSE WhiteLoop(image, outs, 1)

\* result != image (Image.__eq__ compares class, mode, size, info and pixel
\* bytes, in this order): a crop, of class Image.Image, equals the input only
\* if the input has that class, the crop covers the whole image and the
\* input's info dictionary is empty like that of Image.fromarray
DiffersFromImage(image, result) ==
    /\ result.kind = "crop"
    /\ ~(/\ ~image.from_file
         /\ result.rect.w = image.W /\ result.rect.h = image.H
         /\ image.info_empty)

\* Image.__eq__ reaches tobytes(), which loads the pixel data, when class,
\* mode, size and info are equal
ComparesPixels(image, result) ==
    \/ result.kind = "image"
    \/ /\ ~image.from_file
       /\ result.rect.w = image.W /\ result.rect.h = image.H
       /\ image.info_empty

\* result_array.size > original_array.size * 0.1
RetainsEnough(image, result) ==
    10 * result.rect.w * result.rect.h > image.W * image.H

\* ------------------------------------------------------------------------
\* Python floats (IEEE 754 binary64, round to nearest even) for the scores.
\* A positive float is m * 2^e with 2^52 <= m < 2^53; m is held as four
\* digits in base 2^15, the least significant first, so that no
\* intermediate value passes 2^31.
\* ------------------------------------------------------------------------
Limb(n) == n % 32768

Carry(n) == n \div 32768

RECURSIVE MulSmall(_, _, _)
\* the digits of a * d + carry
MulSmall(a, d, carry) ==
    IF a = <<>> THEN (IF carry = 0 THEN <<>> ELSE <<carry>>)
    ELSE <<Limb(Head(a) * d + carry)>>
            \o MulSmall(Tail(a), d, Carry(Head(a) * d + carry))

RECURSIVE AddDigits(_, _, _)
\* the digits of a + b + carry
AddDigits(a, b, carry) ==
    IF a = <<>> /\ b = <<>> THEN (IF carry = 0 THEN <<>> ELSE <<carry>>)
    ELSE LET x == (IF a = <<>> THEN 0 ELSE Head(a))
                    + (IF b = <<>> THEN 0 ELSE Head(b)) + carry
         IN  <<Limb(x)>> \o AddDigits(IF a = <<>> THEN <<>> ELSE Tail(a),
                                      IF b = <<>> THEN <<>> ELSE Tail(b), Carry(x))

RECURSIVE MulDigits(_, _)
\* the digits of a * b
MulDigits(a, b) ==
    IF b = <<>> THEN <<>>
    ELSE AddDigits(MulSmall(a, Head(b), 0), <<0>> \o MulDigits(a, Tail(b)), 0)

\* the bit of weight 2^(i - 1) of the number with the digits p
Bit(p, i) ==
    LET k == (i - 1) \div 15 + 1
    IN  IF k > Len(p) THEN 0 ELSE (p[k] \div 2^((i - 1) % 15)) % 2

RECURSIVE BitsValue(_, _, _)
\* bits[lo] + 2 * bits[lo + 1] + ... up to bits[hi]
BitsValue(bits, lo, hi) ==
    IF lo > hi THEN 0 ELSE bits[lo] + 2 * BitsValue(bits, lo + 1, hi)

\* the float for the 53 bits (least significant first), the round bit and
\* the sticky bit of an exact result, with the exponent e of the last bit
RoundedFloat(bits, round, sticky, e) ==
    LET m == <<BitsValue(bits, 1, 15), BitsValue(bits, 16, 30),
               BitsValue(bits, 31, 45), BitsValue(bits, 46, 53)>>
        up == round = 1 /\ (sticky \/ bits[1] = 1)
        m1 == IF up THEN AddDigits(m, <<1>>, 0) ELSE m
    IN  IF m1 = <<0, 0, 0, 256>>
        THEN [m |-> <<0, 0, 0, 128>>, e |-> e + 1]
        ELSE [m |-> m1, e |-> e]

\* a * c for two positive floats
FloatMul(a, c) ==
    LET p == MulDigits(a.m, c.m)
        s == IF Bit(p, 106) = 1 THEN 53 ELSE 52
    IN  RoundedFloat([i \in 1..53 |-> Bit(p, s + i)], Bit(p, s),
                     \E i \in 1..(s - 1) : Bit(p, i) = 1, a.e + c.e + s)

RECURSIVE ShiftTo(_, _, _)
\* r doubled until it reaches d, and the number of doublings
ShiftTo(r, d, z) == IF r >= d THEN [r |-> r, z |-> z] ELSE ShiftTo(2 * r, d, z + 1)

RECURSIVE QuotientDigits(_, _, _)
\* the next k digits in base 2^9 of the fraction r / d for r < d < 2^22, the
\* most significant first, and the remainder left after them
QuotientDigits(r, d, k) ==
    IF k = 0 THEN [digits |-> <<>>, rem |-> r]
    ELSE LET rest == QuotientDigits((512 * r) % d, d, k - 1)
         IN  [digits |-> <<(512 * r) \div d>> \o rest.digits, rem |-> rest.rem]

\* n / d as a float, for integers 0 < n < d (an area ratio above 0 and below
\* 1): the quotient 1.f of n * 2^z / d has the leading bit 1 and the bits
\* of f, of which 52 go to m, the next is the round bit and the rest is sticky
FloatDiv(n, d) ==
    LET sh == ShiftTo(n, d, 0)
        f == QuotientDigits(sh.r - d, d, 6)
        bit == [i \in 1..55 |->
                  IF i = 1 THEN 1
                  ELSE (f.digits[(i - 2) \div 9 + 1] \div 2^(8 - ((i - 2) % 9))) % 2]
    IN  RoundedFloat([i \in 1..53 |-> bit[54 - i]], bit[54],
                     bit[55] = 1 \/ f.rem # 0, 0 - sh.z - 52)

\* best_score = 0
FloatZero == [m |-> <<0, 0, 0, 0>>, e |-> 0]

\* a > b for floats that are positive or zero
FloatGreater(a, b) ==
    IF a = FloatZero THEN FALSE
    ELSE IF b = FloatZero THEN TRUE
    ELSE \/ a.e > b.e
         \/ /\ a.e = b.e
            /\ \E i \in 1..4 : a.m[i] > b.m[i] /\ \A k \in (i + 1)..4 : a.m[k] = b.m[k]

\* the float literals 1.5, 1.2 and 1.3
FourCornerBonus == [m |-> <<0, 0, 0, 192>>, e |-> -52]

AspectBonus == [m |-> <<13107, 26214, 19660, 153>>, e |-> -52]

WhiteThreshBonus == [m |-> <<19661, 6553, 13107, 166>>, e |-> -52]

\* if score > best_score
Better(score, best_score) == FloatGreater(score, best_score)

Methods == <<"otsu", "adaptive_small", "adaptive_large", "white_thresh">>

kernel_sizes == <<15, 25, 30>>

\* score = area_ratio, then score *= 1.5, score *= 1.2, score *= 1.3 where
\* each applies, every operation rounded as a float; area_ratio is
\* area / image_area of a candidate with 0.10 < area_ratio < 0.90
Score(largest, approx, method_name, image) ==
    LET area_ratio == FloatDiv(ContourArea2(largest), 2 * image.W * image.H)
        corners == IF Len(approx) = 4
                   THEN FloatMul(area_ratio, FourCornerBonus) ELSE area_ratio
        aspect == IF AspectBetween(BoundingRect(largest), 15, 50)
                  THEN FloatMul(corners, AspectBonus) ELSE corners
    IN  IF method_name = "white_thresh"
        THEN FloatMul(aspect, WhiteThreshBonus) ELSE aspect

\* np.argmin / np.argmax: the first position of the extreme value
ArgMin(v) == CHOOSE i \in 1..Len(v) :
    /\ \A k \in 1..Len(v) : v[i] <= v[k]
    /\ \A k \in 1..(i - 1) : v[k] > v[i]

ArgMax(v) == CHOOSE i \in 1..Len(v) :
    /\ \A k \in 1..Len(v) : v[i] >= v[k]
    /\ \A k \in 1..(i - 1) : v[k] < v[i]

\* rect[0..3]: top-left, top-right, bottom-right, bottom-left
OrderCorners(pts) ==
    LET sm == [i \in 1..Len(pts) |-> pts[i][1] + pts[i][2]]
        diff == [i \in 1..Len(pts) |-> pts[i][2] - pts[i][1]]
    IN  [tl |-> pts[ArgMin(sm)], br |-> pts[ArgMax(sm)],
         tr |-> pts[ArgMin(diff)], bl |-> pts[ArgMax(diff)]]

\* int(np.sqrt((a[0] - b[0]) ** 2 + (a[1] - b[1]) ** 2))
EdgeLen(a, b) == ISqrt((a[1] - b[1]) * (a[1] - b[1]) + (a[2] - b[2]) * (a[2] - b[2]))

\* the smaller of the two edge lengths
minWidth(rect) == Min2(EdgeLen(rect.br, rect.bl), EdgeLen(rect.tr, rect.tl))

\* max(int(widthA), int(widthB))
maxWidth(rect) == Max2(EdgeLen(rect.br, rect.bl), EdgeLen(rect.tr, rect.tl))

maxHeight(rect) == Max2(EdgeLen(rect.tr, rect.br), EdgeLen(rect.tl, rect.bl))

MinWarpSide == 50

\* the exception handlers of the detector:
\*   detect_white_background_region, "except: pass" then "return image"
\*   the method loop, "except: continue"
\*   detect_and_crop_receipt, "except Exception as e: return image"
OnOuterError(image) == [kind |-> "image", w |-> image.W, h |-> image.H]

\* an exception leaves detect_and_crop_receipt: lines 131-137 are outside
\* every try
Propagated == [kind |-> "raised", w |-> 0, h |-> 0]


\* ------------------------------------------------------------------------
\* Language-model client (ai_service.py): the messages of chat.
\*
\* A message is [role, content]; a content is [kind, n]: the n-th history
\* text, the document block around document n, the question line for user
\* message n, or the system instruction.
\* ------------------------------------------------------------------------
HistoryWindow == 10

\* history[:HistoryWindow], the oldest entries instead of the latest
FirstEntries(history) == Sub(history, 1, Min2(Len(history), HistoryWindow))

\* history[-HistoryWindow:]
LastEntries(history) ==
    Sub(history, Max2(1, Len(history) - HistoryWindow + 1), Len(history))

\* msg.get("role", "user")
RoleOf(msg) == IF msg.role = "absent" THEN "user" ELSE msg.role

SystemMessage == [role |-> "system", content |-> [kind |-> "SYSTEM_PROMPT", n |-> 0]]

\* "DOCUMENT (...):\n---\n{document_text}\n---"
DocMessage(document) ==
    [role |-> "user", content |-> [kind |-> "DOCUMENT", n |-> document]]

\* "KYSYMYS: {user_message}"
QuestionMessage(user_message) ==
    [role |-> "user", content |-> [kind |-> "KYSYMYS", n |-> user_message]]

HistoryMessages(history) ==
    [i \in 1..Len(LastEntries(history)) |->
        [role |-> RoleOf(LastEntries(history)[i]),
         content |-> LastEntries(history)[i].content]]

\* OpenAIService.chat, lines 170-194
OpenAIChatMessages(document, user_message, history) ==
    <<SystemMessage>> \o HistoryMessages(history)
        \o <<DocMessage(document), QuestionMessage(user_message)>>

\* OllamaService.chat, lines 396-418
OllamaChatMessages(document, user_message, history) ==
    <<SystemMessage>> \o HistoryMessages(history)
        \o <<DocMessage(document), QuestionMessage(user_message)>>


\* ------------------------------------------------------------------------
\* Language-model client (ai_service.py): OllamaService and the OLLAMA_HOST
\* override.  The override is "unset" or an address; original_host is
\* "None" when os.environ.get found nothing.
\* ------------------------------------------------------------------------
DefaultBaseUrl == "http://localhost:11434"

\* original_host = os.environ.get('OLLAMA_HOST')
SaveHost(env) == IF env = "unset" THEN "None" ELSE env

\* if self.base_url != "http://localhost:11434": os.environ['OLLAMA_HOST'] = self.base_url
SetHost(env, base_url) == IF base_url # DefaultBaseUrl THEN base_url ELSE env

\* a restore that forgets to remove an override that was not there before
RestoreHostKeepsNew(env, original_host) ==
    IF original_host = "None" THEN env ELSE original_host

\* finally: pop the override if original_host is None, else put it back
RestoreHost(env, original_host) ==
    IF original_host = "None" THEN "unset" ELSE original_host

\* the except clauses of OpenAIService: chat tells an encoding error from
\* the rest ("Virhe OpenAI API:ssa"); the other two operations wrap all
OpenAIErrorOf(op, failure) ==
    IF op = "chat" /\ failure = "UnicodeEncodeError"
    THEN "EncodingError" ELSE "BackendError"

\* openai.OpenAI(api_key=api_key) passes no max_retries: the client keeps
\* the default of the SDK (openai.DEFAULT_MAX_RETRIES)
max_retries == 2

\* what the except clauses make of a failed request:
\*   chat: ImportError gives the text of the missing package ("Ollama-
\*         paketti puuttuu"), also when the request raised it;
\*         ConnectionError, or a message holding "Failed to connect" or
\*         "Connection", gives the remediation text; anything else the
\*         generic "Virhe Ollama-palvelimessa"
\*   extract_receipt, analyze_purchases: one generic message for everything
ErrorOf(op, failure) ==
    IF op = "chat"
    THEN IF failure = "ImportError" THEN "PackageMissing"
         ELSE IF failure \in {"ConnectionError", "ConnectionText"}
         THEN "BackendUnavailable" ELSE "BackendError"
    ELSE "BackendError"


\* ------------------------------------------------------------------------
\* Characters and str.lower().  The three tables are those of the Unicode
\* character database (version 14.0.0), in code points
\* ------------------------------------------------------------------------
\* chr(n) for n < 128
Ascii ==
    <<"U+0000", "U+0001", "U+0002", "U+0003", "U+0004", "U+0005", "U+0006", "U+0007",
      "U+0008", "\t", "\n", "U+000B", "\f", "\r", "U+000E", "U+000F",
      "U+0010", "U+0011", "U+0012", "U+0013", "U+0014", "U+0015", "U+0016", "U+0017",
      "U+0018", "U+0019", "U+001A", "U+001B", "U+001C", "U+001D", "U+001E", "U+001F",
      " ", "!", Q, "#", "$", "%", "&", "'",
      "(", ")", "*", "+", ",", "-", ".", "/",
      "0", "1", "2", "3", "4", "5", "6", "7",
      "8", "9", ":", ";", "<", "=", ">", "?",
      "@", "A", "B", "C", "D", "E", "F", "G",
      "H", "I", "J", "K", "L", "M", "N", "O",
      "P", "Q", "R", "S", "T", "U", "V", "W",
      "X", "Y", "Z", "[", BS, "]", "^", "_",
      BT, "a", "b", "c", "d", "e", "f", "g",
      "h", "i", "j", "k", "l", "m", "n", "o",
      "p", "q", "r", "s", "t", "u", "v", "w",
      "x", "y", "z", "{", "|", "}", "~", "U+007F">>

HexDigitOf ==
    <<"0", "1", "2", "3", "4", "5", "6", "7", "8", "9", "A", "B", "C", "D", "E", "F">>

RECURSIVE HexOf(_, _)
\* the n hexadecimal digits of uni, as a string
HexOf(uni, n) ==
    IF n = 0 THEN "" ELSE HexOf(uni \div 16, n - 1) \o HexDigitOf[(uni % 16) + 1]

\* chr(uni): a character above U+007F is written "U+" and its code point
\* in four, five or six hexadecimal digits, as everywhere in this module
Chr(uni) ==
    IF uni < 128 THEN Ascii[uni + 1]
    ELSE "U+" \o HexOf(uni, IF uni < 65536 THEN 4 ELSE IF uni < 1048576 THEN 5 ELSE 6)

\* the code points whose lower case is one other character, in runs
\* <<first, last, step, delta>>: first, first + step, ..., last each have
\* the lower case delta above them
LowerRuns ==
    {<<65, 90, 1, 32>>, <<192, 214, 1, 32>>, <<216, 222, 1, 32>>, <<256, 302, 2, 1>>,
     <<306, 310, 2, 1>>, <<313, 327, 2, 1>>, <<330, 374, 2, 1>>, <<376, 376, 1, -121>>,
     <<377, 381, 2, 1>>, <<385, 385, 1, 210>>, <<386, 388, 2, 1>>, <<390, 390, 1, 206>>,
     <<391, 391, 1, 1>>, <<393, 394, 1, 205>>, <<395, 395, 1, 1>>, <<398, 398, 1, 79>>,
     <<399, 399, 1, 202>>, <<400, 400, 1, 203>>, <<401, 401, 1, 1>>, <<403, 403, 1, 205>>,
     <<404, 404, 1, 207>>, <<406, 406, 1, 211>>, <<407, 407, 1, 209>>, <<408, 408, 1, 1>>,
     <<412, 412, 1, 211>>, <<413, 413, 1, 213>>, <<415, 415, 1, 214>>, <<416, 420, 2, 1>>,
     <<422, 422, 1, 218>>, <<423, 423, 1, 1>>, <<425, 425, 1, 218>>, <<428, 428, 1, 1>>,
     <<430, 430, 1, 218>>, <<431, 431, 1, 1>>, <<433, 434, 1, 217>>, <<435, 437, 2, 1>>,
     <<439, 439, 1, 219>>, <<440, 440, 1, 1>>, <<444, 444, 1, 1>>, <<452, 452, 1, 2>>,
     <<453, 453, 1, 1>>, <<455, 455, 1, 2>>, <<456, 456, 1, 1>>, <<458, 458, 1, 2>>,
     <<459, 475, 2, 1>>, <<478, 494, 2, 1>>, <<497, 497, 1, 2>>, <<498, 500, 2, 1>>,
     <<502, 502, 1, -97>>, <<503, 503, 1, -56>>, <<504, 542, 2, 1>>, <<544, 544, 1, -130>>,
     <<546, 562, 2, 1>>, <<570, 570, 1, 10795>>, <<571, 571, 1, 1>>, <<573, 573, 1, -163>>,
     <<574, 574, 1, 10792>>, <<577, 577, 1, 1>>, <<579, 579, 1, -195>>, <<580, 580, 1, 69>>,
     <<581, 581, 1, 71>>, <<582, 590, 2, 1>>, <<880, 882, 2, 1>>, <<886, 886, 1, 1>>,
     <<895, 895, 1, 116>>, <<902, 902, 1, 38>>, <<904, 906, 1, 37>>, <<908, 908, 1, 64>>,
     <<910, 911, 1, 63>>, <<913, 929, 1, 32>>, <<931, 939, 1, 32>>, <<975, 975, 1, 8>>,
     <<984, 1006, 2, 1>>, <<1012, 1012, 1, -60>>, <<1015, 1015, 1, 1>>, <<1017, 1017, 1, -7>>,
     <<1018, 1018, 1, 1>>, <<1021, 1023, 1, -130>>, <<1024, 1039, 1, 80>>, <<1040, 1071, 1, 32>>,
     <<1120, 1152, 2, 1>>, <<1162, 1214, 2, 1>>, <<1216, 1216, 1, 15>>, <<1217, 1229, 2, 1>>,
     <<1232, 1326, 2, 1>>, <<1329, 1366, 1, 48>>, <<4256, 4293, 1, 7264>>, <<4295, 4295, 1, 7264>>,
     <<4301, 4301, 1, 7264>>, <<5024, 5103, 1, 38864>>, <<5104, 5109, 1, 8>>, <<7312, 7354, 1, -3008>>,
     <<7357, 7359, 1, -3008>>, <<7680, 7828, 2, 1>>, <<7838, 7838, 1, -7615>>, <<7840, 7934, 2, 1>>,
     <<7944, 7951, 1, -8>>, <<7960, 7965, 1, -8>>, <<7976, 7983, 1, -8>>, <<7992, 7999, 1, -8>>,
     <<8008, 8013, 1, -8>>, <<8025, 8031, 2, -8>>, <<8040, 8047, 1, -8>>, <<8072, 8079, 1, -8>>,
     <<8088, 8095, 1, -8>>, <<8104, 8111, 1, -8>>, <<8120, 8121, 1, -8>>, <<8122, 8123, 1, -74>>,
     <<8124, 8124, 1, -9>>, <<8136, 8139, 1, -86>>, <<8140, 8140, 1, -9>>, <<8152, 8153, 1, -8>>,
     <<8154, 8155, 1, -100>>, <<8168, 8169, 1, -8>>, <<8170, 8171, 1, -112>>, <<8172, 8172, 1, -7>>,
     <<8184, 8185, 1, -128>>, <<8186, 8187, 1, -126>>, <<8188, 8188, 1, -9>>, <<8486, 8486, 1, -7517>>,
     <<8490, 8490, 1, -8383>>, <<8491, 8491, 1, -8262>>, <<8498, 8498, 1, 28>>, <<8544, 8559, 1, 16>>,
     <<8579, 8579, 1, 1>>, <<9398, 9423, 1, 26>>, <<11264, 11311, 1, 48>>, <<11360, 11360, 1, 1>>,
     <<11362, 11362, 1, -10743>>, <<11363, 11363, 1, -3814>>, <<11364, 11364, 1, -10727>>, <<11367, 11371, 2, 1>>,
     <<11373, 11373, 1, -10780>>, <<11374, 11374, 1, -10749>>, <<11375, 11375, 1, -10783>>, <<11376, 11376, 1, -10782>>,
     <<11378, 11378, 1, 1>>, <<11381, 11381, 1, 1>>, <<11390, 11391, 1, -10815>>, <<11392, 11490, 2, 1>>,
     <<11499, 11501, 2, 1>>, <<11506, 11506, 1, 1>>, <<42560, 42604, 2, 1>>, <<42624, 42650, 2, 1>>,
     <<42786, 42798, 2, 1>>, <<42802, 42862, 2, 1>>, <<42873, 42875, 2, 1>>, <<42877, 42877, 1, -35332>>,
     <<42878, 42886, 2, 1>>, <<42891, 42891, 1, 1>>, <<42893, 42893, 1, -42280>>, <<42896, 42898, 2, 1>>,
     <<42902, 42920, 2, 1>>, <<42922, 42922, 1, -42308>>, <<42923, 42923, 1, -42319>>, <<42924, 42924, 1, -42315>>,
     <<42925, 42925, 1, -42305>>, <<42926, 42926, 1, -42308>>, <<42928, 42928, 1, -42258>>, <<42929, 42929, 1, -42282>>,
     <<42930, 42930, 1, -42261>>, <<42931, 42931, 1, 928>>, <<42932, 42946, 2, 1>>, <<42948, 42948, 1, -48>>,
     <<42949, 42949, 1, -42307>>, <<42950, 42950, 1, -35384>>, <<42951, 42953, 2, 1>>, <<42960, 42960, 1, 1>>,
     <<42966, 42968, 2, 1>>, <<42997, 42997, 1, 1>>, <<65313, 65338, 1, 32>>, <<66560, 66599, 1, 40>>,
     <<66736, 66771, 1, 40>>, <<66928, 66938, 1, 39>>, <<66940, 66954, 1, 39>>, <<66956, 66962, 1, 39>>,
     <<66964, 66965, 1, 39>>, <<68736, 68786, 1, 64>>, <<71840, 71871, 1, 32>>, <<93760, 93791, 1, 32>>,
     <<125184, 125217, 1, 34>>}

\* the code points that are cased (a letter that is or has an upper, lower
\* or title case), in ranges <<first, last>>
CasedRanges ==
    {<<65, 90>>, <<97, 122>>, <<170, 170>>, <<181, 181>>, <<186, 186>>, <<192, 214>>,
     <<216, 246>>, <<248, 442>>, <<444, 447>>, <<452, 659>>, <<661, 696>>, <<704, 705>>,
     <<736, 740>>, <<837, 837>>, <<880, 883>>, <<886, 887>>, <<890, 893>>, <<895, 895>>,
     <<902, 902>>, <<904, 906>>, <<908, 908>>, <<910, 929>>, <<931, 1013>>, <<1015, 1153>>,
     <<1162, 1327>>, <<1329, 1366>>, <<1376, 1416>>, <<4256, 4293>>, <<4295, 4295>>, <<4301, 4301>>,
     <<4304, 4346>>, <<4349, 4351>>, <<5024, 5109>>, <<5112, 5117>>, <<7296, 7304>>, <<7312, 7354>>,
     <<7357, 7359>>, <<7424, 7615>>, <<7680, 7957>>, <<7960, 7965>>, <<7968, 8005>>, <<8008, 8013>>,
     <<8016, 8023>>, <<8025, 8025>>, <<8027, 8027>>, <<8029, 8029>>, <<8031, 8061>>, <<8064, 8116>>,
     <<8118, 8124>>, <<8126, 8126>>, <<8130, 8132>>, <<8134, 8140>>, <<8144, 8147>>, <<8150, 8155>>,
     <<8160, 8172>>, <<8178, 8180>>, <<8182, 8188>>, <<8305, 8305>>, <<8319, 8319>>, <<8336, 8348>>,
     <<8450, 8450>>, <<8455, 8455>>, <<8458, 8467>>, <<8469, 8469>>, <<8473, 8477>>, <<8484, 8484>>,
     <<8486, 8486>>, <<8488, 8488>>, <<8490, 8493>>, <<8495, 8500>>, <<8505, 8505>>, <<8508, 8511>>,
     <<8517, 8521>>, <<8526, 8526>>, <<8544, 8575>>, <<8579, 8580>>, <<9398, 9449>>, <<11264, 11492>>,
     <<11499, 11502>>, <<11506, 11507>>, <<11520, 11557>>, <<11559, 11559>>, <<11565, 11565>>, <<42560, 42605>>,
     <<42624, 42653>>, <<42786, 42887>>, <<42891, 42894>>, <<42896, 42954>>, <<42960, 42961>>, <<42963, 42963>>,
     <<42965, 42969>>, <<42997, 42998>>, <<43000, 43002>>, <<43824, 43866>>, <<43868, 43880>>, <<43888, 43967>>,
     <<64256, 64262>>, <<64275, 64279>>, <<65313, 65338>>, <<65345, 65370>>, <<66560, 66639>>, <<66736, 66771>>,
     <<66776, 66811>>, <<66928, 66938>>, <<66940, 66954>>, <<66956, 66962>>, <<66964, 66965>>, <<66967, 66977>>,
     <<66979, 66993>>, <<66995, 67001>>, <<67003, 67004>>, <<67456, 67456>>, <<67459, 67461>>, <<67463, 67504>>,
     <<67506, 67514>>, <<68736, 68786>>, <<68800, 68850>>, <<71840, 71903>>, <<93760, 93823>>, <<119808, 119892>>,
     <<119894, 119964>>, <<119966, 119967>>, <<119970, 119970>>, <<119973, 119974>>, <<119977, 119980>>, <<119982, 119993>>,
     <<119995, 119995>>, <<119997, 120003>>, <<120005, 120069>>, <<120071, 120074>>, <<120077, 120084>>, <<120086, 120092>>,
     <<120094, 120121>>, <<120123, 120126>>, <<120128, 120132>>, <<120134, 120134>>, <<120138, 120144>>, <<120146, 120485>>,
     <<120488, 120512>>, <<120514, 120538>>, <<120540, 120570>>, <<120572, 120596>>, <<120598, 120628>>, <<120630, 120654>>,
     <<120656, 120686>>, <<120688, 120712>>, <<120714, 120744>>, <<120746, 120770>>, <<120772, 120779>>, <<122624, 122633>>,
     <<122635, 122654>>, <<125184, 125251>>, <<127280, 127305>>, <<127312, 127337>>, <<127344, 127369>>}

\* the code points that are case-ignorable (marks, modifiers, format
\* characters, some punctuation), in ranges <<first, last>>
CaseIgnorableRanges ==
    {<<39, 39>>, <<46, 46>>, <<58, 58>>, <<94, 94>>, <<96, 96>>, <<168, 168>>,
     <<173, 173>>, <<175, 175>>, <<180, 180>>, <<183, 184>>, <<688, 879>>, <<884, 885>>,
     <<890, 890>>, <<900, 901>>, <<903, 903>>, <<1155, 1161>>, <<1369, 1369>>, <<1375, 1375>>,
     <<1425, 1469>>, <<1471, 1471>>, <<1473, 1474>>, <<1476, 1477>>, <<1479, 1479>>, <<1524, 1524>>,
     <<1536, 1541>>, <<1552, 1562>>, <<1564, 1564>>, <<1600, 1600>>, <<1611, 1631>>, <<1648, 1648>>,
     <<1750, 1757>>, <<1759, 1768>>, <<1770, 1773>>, <<1807, 1807>>, <<1809, 1809>>, <<1840, 1866>>,
     <<1958, 1968>>, <<2027, 2037>>, <<2042, 2042>>, <<2045, 2045>>, <<2070, 2093>>, <<2137, 2139>>,
     <<2184, 2184>>, <<2192, 2193>>, <<2200, 2207>>, <<2249, 2306>>, <<2362, 2362>>, <<2364, 2364>>,
     <<2369, 2376>>, <<2381, 2381>>, <<2385, 2391>>, <<2402, 2403>>, <<2417, 2417>>, <<2433, 2433>>,
     <<2492, 2492>>, <<2497, 2500>>, <<2509, 2509>>, <<2530, 2531>>, <<2558, 2558>>, <<2561, 2562>>,
     <<2620, 2620>>, <<2625, 2626>>, <<2631, 2632>>, <<2635, 2637>>, <<2641, 2641>>, <<2672, 2673>>,
     <<2677, 2677>>, <<2689, 2690>>, <<2748, 2748>>, <<2753, 2757>>, <<2759, 2760>>, <<2765, 2765>>,
     <<2786, 2787>>, <<2810, 2815>>, <<2817, 2817>>, <<2876, 2876>>, <<2879, 2879>>, <<2881, 2884>>,
     <<2893, 2893>>, <<2901, 2902>>, <<2914, 2915>>, <<2946, 2946>>, <<3008, 3008>>, <<3021, 3021>>,
     <<3072, 3072>>, <<3076, 3076>>, <<3132, 3132>>, <<3134, 3136>>, <<3142, 3144>>, <<3146, 3149>>,
     <<3157, 3158>>, <<3170, 3171>>, <<3201, 3201>>, <<3260, 3260>>, <<3263, 3263>>, <<3270, 3270>>,
     <<3276, 3277>>, <<3298, 3299>>, <<3328, 3329>>, <<3387, 3388>>, <<3393, 3396>>, <<3405, 3405>>,
     <<3426, 3427>>, <<3457, 3457>>, <<3530, 3530>>, <<3538, 3540>>, <<3542, 3542>>, <<3633, 3633>>,
     <<3636, 3642>>, <<3654, 3662>>, <<3761, 3761>>, <<3764, 3772>>, <<3782, 3782>>, <<3784, 3789>>,
     <<3864, 3865>>, <<3893, 3893>>, <<3895, 3895>>, <<3897, 3897>>, <<3953, 3966>>, <<3968, 3972>>,
     <<3974, 3975>>, <<3981, 3991>>, <<3993, 4028>>, <<4038, 4038>>, <<4141, 4144>>, <<4146, 4151>>,
     <<4153, 4154>>, <<4157, 4158>>, <<4184, 4185>>, <<4190, 4192>>, <<4209, 4212>>, <<4226, 4226>>,
     <<4229, 4230>>, <<4237, 4237>>, <<4253, 4253>>, <<4348, 4348>>, <<4957, 4959>>, <<5906, 5908>>,
     <<5938, 5939>>, <<5970, 5971>>, <<6002, 6003>>, <<6068, 6069>>, <<6071, 6077>>, <<6086, 6086>>,
     <<6089, 6099>>, <<6103, 6103>>, <<6109, 6109>>, <<6155, 6159>>, <<6211, 6211>>, <<6277, 6278>>,
     <<6313, 6313>>, <<6432, 6434>>, <<6439, 6440>>, <<6450, 6450>>, <<6457, 6459>>, <<6679, 6680>>,
     <<6683, 6683>>, <<6742, 6742>>, <<6744, 6750>>, <<6752, 6752>>, <<6754, 6754>>, <<6757, 6764>>,
     <<6771, 6780>>, <<6783, 6783>>, <<6823, 6823>>, <<6832, 6862>>, <<6912, 6915>>, <<6964, 6964>>,
     <<6966, 6970>>, <<6972, 6972>>, <<6978, 6978>>, <<7019, 7027>>, <<7040, 7041>>, <<7074, 7077>>,
     <<7080, 7081>>, <<7083, 7085>>, <<7142, 7142>>, <<7144, 7145>>, <<7149, 7149>>, <<7151, 7153>>,
     <<7212, 7219>>, <<7222, 7223>>, <<7288, 7293>>, <<7376, 7378>>, <<7380, 7392>>, <<7394, 7400>>,
     <<7405, 7405>>, <<7412, 7412>>, <<7416, 7417>>, <<7468, 7530>>, <<7544, 7544>>, <<7579, 7679>>,
     <<8125, 8125>>, <<8127, 8129>>, <<8141, 8143>>, <<8157, 8159>>, <<8173, 8175>>, <<8189, 8190>>,
     <<8203, 8207>>, <<8216, 8217>>, <<8228, 8228>>, <<8231, 8231>>, <<8234, 8238>>, <<8288, 8292>>,
     <<8294, 8303>>, <<8305, 8305>>, <<8319, 8319>>, <<8336, 8348>>, <<8400, 8432>>, <<11388, 11389>>,
     <<11503, 11505>>, <<11631, 11631>>, <<11647, 11647>>, <<11744, 11775>>, <<11823, 11823>>, <<12293, 12293>>,
     <<12330, 12333>>, <<12337, 12341>>, <<12347, 12347>>, <<12441, 12446>>, <<12540, 12542>>, <<40981, 40981>>,
     <<42232, 42237>>, <<42508, 42508>>, <<42607, 42610>>, <<42612, 42621>>, <<42623, 42623>>, <<42652, 42655>>,
     <<42736, 42737>>, <<42752, 42785>>, <<42864, 42864>>, <<42888, 42890>>, <<42994, 42996>>, <<43000, 43001>>,
     <<43010, 43010>>, <<43014, 43014>>, <<43019, 43019>>, <<43045, 43046>>, <<43052, 43052>>, <<43204, 43205>>,
     <<43232, 43249>>, <<43263, 43263>>, <<43302, 43309>>, <<43335, 43345>>, <<43392, 43394>>, <<43443, 43443>>,
     <<43446, 43449>>, <<43452, 43453>>, <<43471, 43471>>, <<43493, 43494>>, <<43561, 43566>>, <<43569, 43570>>,
     <<43573, 43574>>, <<43587, 43587>>, <<43596, 43596>>, <<43632, 43632>>, <<43644, 43644>>, <<43696, 43696>>,
     <<43698, 43700>>, <<43703, 43704>>, <<43710, 43711>>, <<43713, 43713>>, <<43741, 43741>>, <<43756, 43757>>,
     <<43763, 43764>>, <<43766, 43766>>, <<43867, 43871>>, <<43881, 43883>>, <<44005, 44005>>, <<44008, 44008>>,
     <<44013, 44013>>, <<64286, 64286>>, <<64434, 64450>>, <<65024, 65039>>, <<65043, 65043>>, <<65056, 65071>>,
     <<65106, 65106>>, <<65109, 65109>>, <<65279, 65279>>, <<65287, 65287>>, <<65294, 65294>>, <<65306, 65306>>,
     <<65342, 65342>>, <<65344, 65344>>, <<65392, 65392>>, <<65438, 65439>>, <<65507, 65507>>, <<65529, 65531>>,
     <<66045, 66045>>, <<66272, 66272>>, <<66422, 66426>>, <<67456, 67461>>, <<67463, 67504>>, <<67506, 67514>>,
     <<68097, 68099>>, <<68101, 68102>>, <<68108, 68111>>, <<68152, 68154>>, <<68159, 68159>>, <<68325, 68326>>,
     <<68900, 68903>>, <<69291, 69292>>, <<69446, 69456>>, <<69506, 69509>>, <<69633, 69633>>, <<69688, 69702>>,
     <<69744, 69744>>, <<69747, 69748>>, <<69759, 69761>>, <<69811, 69814>>, <<69817, 69818>>, <<69821, 69821>>,
     <<69826, 69826>>, <<69837, 69837>>, <<69888, 69890>>, <<69927, 69931>>, <<69933, 69940>>, <<70003, 70003>>,
     <<70016, 70017>>, <<70070, 70078>>, <<70089, 70092>>, <<70095, 70095>>, <<70191, 70193>>, <<70196, 70196>>,
     <<70198, 70199>>, <<70206, 70206>>, <<70367, 70367>>, <<70371, 70378>>, <<70400, 70401>>, <<70459, 70460>>,
     <<70464, 70464>>, <<70502, 70508>>, <<70512, 70516>>, <<70712, 70719>>, <<70722, 70724>>, <<70726, 70726>>,
     <<70750, 70750>>, <<70835, 70840>>, <<70842, 70842>>, <<70847, 70848>>, <<70850, 70851>>, <<71090, 71093>>,
     <<71100, 71101>>, <<71103, 71104>>, <<71132, 71133>>, <<71219, 71226>>, <<71229, 71229>>, <<71231, 71232>>,
     <<71339, 71339>>, <<71341, 71341>>, <<71344, 71349>>, <<71351, 71351>>, <<71453, 71455>>, <<71458, 71461>>,
     <<71463, 71467>>, <<71727, 71735>>, <<71737, 71738>>, <<71995, 71996>>, <<71998, 71998>>, <<72003, 72003>>,
     <<72148, 72151>>, <<72154, 72155>>, <<72160, 72160>>, <<72193, 72202>>, <<72243, 72248>>, <<72251, 72254>>,
     <<72263, 72263>>, <<72273, 72278>>, <<72281, 72283>>, <<72330, 72342>>, <<72344, 72345>>, <<72752, 72758>>,
     <<72760, 72765>>, <<72767, 72767>>, <<72850, 72871>>, <<72874, 72880>>, <<72882, 72883>>, <<72885, 72886>>,
     <<73009, 73014>>, <<73018, 73018>>, <<73020, 73021>>, <<73023, 73029>>, <<73031, 73031>>, <<73104, 73105>>,
     <<73109, 73109>>, <<73111, 73111>>, <<73459, 73460>>, <<78896, 78904>>, <<92912, 92916>>, <<92976, 92982>>,
     <<92992, 92995>>, <<94031, 94031>>, <<94095, 94111>>, <<94176, 94177>>, <<94179, 94180>>, <<110576, 110579>>,
     <<110581, 110587>>, <<110589, 110590>>, <<113821, 113822>>, <<113824, 113827>>, <<118528, 118573>>, <<118576, 118598>>,
     <<119143, 119145>>, <<119155, 119170>>, <<119173, 119179>>, <<119210, 119213>>, <<119362, 119364>>, <<121344, 121398>>,
     <<121403, 121452>>, <<121461, 121461>>, <<121476, 121476>>, <<121499, 121503>>, <<121505, 121519>>, <<122880, 122886>>,
     <<122888, 122904>>, <<122907, 122913>>, <<122915, 122916>>, <<122918, 122922>>, <<123184, 123197>>, <<123566, 123566>>,
     <<123628, 123631>>, <<125136, 125142>>, <<125252, 125259>>, <<127995, 127999>>, <<917505, 917505>>, <<917536, 917631>>,
     <<917760, 917999>>}

\* each character that has a one-character lower case, with it
LowerPairs ==
    UNION {{<<Chr(n), Chr(n + r[4])>> :
               n \in {m \in r[1]..r[2] : (m - r[1]) % r[3] = 0}} : r \in LowerRuns}

HasLower == {p[1] : p \in LowerPairs}

Cased == UNION {{Chr(n) : n \in r[1]..r[2]} : r \in CasedRanges}

CaseIgnorable == UNION {{Chr(n) : n \in r[1]..r[2]} : r \in CaseIgnorableRanges}

\* str.lower() of one character, as a string: the lower case of the table,
\* for U+0130 (LATIN CAPITAL LETTER I WITH DOT ABOVE) the two characters i
\* and U+0307, and the character itself when it has no lower case
LowerChar(c) ==
    IF c = "U+0130" THEN <<"i", "U+0307">>
    ELSE IF c \in HasLower THEN <<(CHOOSE p \in LowerPairs : p[1] = c)[2]>>
    ELSE <<c>>

\* the capital sigma at text[i] ends a word: the nearest character before
\* it that is not case-ignorable is cased, and the nearest such character
\* after it, if there is one, is not
FinalSigma(text, i) ==
    LET before == {j \in 1..(i - 1) : text[j] \notin CaseIgnorable}
        after == {j \in (i + 1)..Len(text) : text[j] \notin CaseIgnorable}
    IN  /\ before # {}
        /\ text[CHOOSE j \in before : \A k \in before : k <= j] \in Cased
        /\ \/ after = {}
           \/ text[CHOOSE j \in after : \A k \in after : j <= k] \notin Cased

\* the lower case of text[i] in its place: a capital sigma that ends a
\* word gives the final small sigma
LowerAt(text, i) ==
    IF text[i] = "U+03A3"
    THEN <<IF FinalSigma(text, i) THEN "U+03C2" ELSE "U+03C3">>
    ELSE LowerChar(text[i])

\* ------------------------------------------------------------------------
\* Language-model client (ai_service.py): create_ai_service.  A keyword
\* argument that was not passed is "absent".
\* ------------------------------------------------------------------------
LowerLetters ==
    <<"a", "b", "c", "d", "e", "f", "g", "h", "i", "j", "k", "l", "m",
      "n", "o", "p", "q", "r", "s", "t", "u", "v", "w", "x", "y", "z">>

UpperLetters ==
    <<"A", "B", "C", "D", "E", "F", "G", "H", "I", "J", "K", "L", "M",
      "N", "O", "P", "Q", "R", "S", "T", "U", "V", "W", "X", "Y", "Z">>

RECURSIVE Concat(_)
\* "".join(parts)
Concat(parts) ==
    IF parts = <<>> THEN <<>> ELSE Head(parts) \o Concat(Tail(parts))

\* the tag compared as it was given
AsGiven(text) == text

\* str.lower()
Lower(text) == Concat([i \in 1..Len(text) |-> LowerAt(text, i)])

TagOpenAI == <<"o", "p", "e", "n", "a", "i">>

TagOllama == <<"o", "l", "l", "a", "m", "a">>

NoKwargs == [api_key |-> "absent", model |-> "absent", base_url |-> "absent"]

\* no service is constructed; error is "none" until a ValueError is raised
NoService == [ok |-> FALSE, class |-> "none", error |-> "none",
              api_key |-> "none", model |-> "none", base_url |-> "none"]

\* kwargs.get(key, default)
KwargOr(value, default) == IF value = "absent" THEN default ELSE value

\* not api_key: the key is missing (None) or the empty string
Falsy(value) == value \in {"absent", ""}

create_ai_service(service_type, kwargs) ==
    IF Lower(service_type) = TagOpenAI
    THEN IF Falsy(kwargs.api_key)
         THEN [NoService EXCEPT !.error = "ValueError: OpenAI-palvelu vaatii API-avaimen"]
         ELSE [ok |-> TRUE, class |-> "OpenAIService", error |-> "none",
               api_key |-> kwargs.api_key,
               model |-> KwargOr(kwargs.model, "gpt-4o-mini"),
               base_url |-> "none"]
    ELSE IF Lower(service_type) = TagOllama
    THEN [ok |-> TRUE, class |-> "OllamaService", error |-> "none",
          api_key |-> "none",
          model |-> KwargOr(kwargs.model, "llama3.2"),
          base_url |-> KwargOr(kwargs.base_url, DefaultBaseUrl)]
    ELSE [NoService EXCEPT !.error = "ValueError: Tuntematon palvelutyyppi"]


\* ------------------------------------------------------------------------
\* Streamlit session (app.py).
\*
\* A text is named by what it was extracted from: the uploaded file and the
\* number of manual crops applied to its image; a PDF without text gives
\* the empty string.  A receipt record is the JSON text that json.loads
\* parsed.  An analysis is named by the receipt record it was computed from.
\* ------------------------------------------------------------------------
NoText == [some |-> FALSE, file |-> "None", crops |-> 0, empty |-> FALSE]

NoImage == [some |-> FALSE, file |-> "None", crops |-> 0]

NoReceipt == [some |-> FALSE, json |-> <<>>]

NoAnalysis == [some |-> FALSE, of |-> <<>>]

\* the truth value of a str: None and "" are false
TextTruthy(text) == text.some /\ ~text.empty

RECURSIVE WithoutJsonWs(_)
WithoutJsonWs(t) ==
    IF t = <<>> THEN <<>>
    ELSE IF Head(t) \in JsonWhitespace THEN WithoutJsonWs(Tail(t))
    ELSE <<Head(t)>> \o WithoutJsonWs(Tail(t))

\* the truth value of the parsed record: None and the empty dict are false
ReceiptTruthy(receipt) == receipt.some /\ WithoutJsonWs(receipt.json) # <<LB, RB>>

Entry(role, content) == [role |-> role, content |-> content]

\* list.append on the stored list, after dropping all but the latest entries
AppendedToWindow(history, entry) == Append(LastEntries(history), entry)

\* st.session_state.chat_history.append(entry)
Appended(history, entry) == Append(history, entry)

\* two consecutive appends of one handler
AppendedPair(history, question, answer) ==
    Appended(Appended(history, Entry("user", question)),
             Entry("assistant", answer))

\* history[:-1]
AllButLast(history) == Sub(history, 1, Len(history) - 1)

\* ------------------------------------------------------------------------
\* Text Extraction Gateway (document_extractor.py): extract_text,
\* extract_from_pdf, extract_from_image, preprocess_image_for_ocr.
\* ------------------------------------------------------------------------
StartsWith(s, p) == MatchAt(s, 1, p)

EndsWith(s, p) == Len(p) <= Len(s) /\ MatchAt(s, Len(s) - Len(p) + 1, p)

PdfType == <<"a", "p", "p", "l", "i", "c", "a", "t", "i", "o", "n", "/", "p", "d", "f">>

PdfExt == <<".", "p", "d", "f">>

ImagePrefix == <<"i", "m", "a", "g", "e", "/">>

\* ['.jpg', '.jpeg', '.png', '.gif', '.bmp', '.tiff']
ImageExts ==
    {<<".", "j", "p", "g">>,
     <<".", "j", "p", "e", "g">>,
     <<".", "p", "n", "g">>,
     <<".", "g", "i", "f">>,
     <<".", "b", "m", "p">>,
     <<".", "t", "i", "f", "f">>}

\* file_type == 'application/pdf' or file_name.endswith('.pdf')
IsPdf(file) == Lower(file.type) = PdfType \/ EndsWith(Lower(file.name), PdfExt)

\* file_type.startswith('image/') or any(file_name.endswith(ext) ...)
IsImage(file) ==
    \/ StartsWith(Lower(file.type), ImagePrefix)
    \/ \E ext \in ImageExts : EndsWith(Lower(file.name), ext)

\* the tests of extract_text with the image test made first
FileRouteImageFirst(file) ==
    IF IsImage(file) THEN "image" ELSE IF IsPdf(file) THEN "pdf" ELSE "unsupported"

\* the if / elif / else of extract_text
FileRoute(file) ==
    IF IsPdf(file) THEN "pdf" ELSE IF IsImage(file) THEN "image" ELSE "unsupported"

\* outcomes of the gateway: a text, or the message of the raised exception
\* (error) and the message of the exception it wraps (cause)
ExReturned(text) == [ok |-> TRUE, error |-> "none", cause |-> "none", text |-> text]

ExRaised(error, cause) == [ok |-> FALSE, error |-> error, cause |-> cause, text |-> <<>>]

ExPending == [ok |-> FALSE, error |-> "pending", cause |-> "none", text |-> <<>>]

RECURSIVE JoinPages(_)
\* "\n\n".join(text_parts) of the pages whose text is not empty
JoinPages(pages) ==
    IF pages = <<>> THEN <<>>
    ELSE IF Head(pages) = <<>> THEN JoinPages(Tail(pages))
    ELSE IF JoinPages(Tail(pages)) = <<>> THEN Head(pages)
    ELSE Head(pages) \o <<NL, NL>> \o JoinPages(Tail(pages))

\* the colour modes a decoded image can have; "CMYK" stands for every other mode
Modes == {"1", "L", "LA", "P", "RGBA", "RGB", "CMYK"}

\* the image is handed on in the mode it was decoded in
NormaliseModeSkipped(mode, convertible, loadable) == mode

\* lines 506-527: alpha and palette images are pasted on a white RGB
\* background, other modes than RGB, L, 1 are converted inside a try that
\* turns what convert raises into a ValueError ("raise"), and whatever is
\* not RGB by then is converted to RGB.  convert, split and paste load the
\* pixel data, which raises when the data cannot be loaded ("load_error"
\* where no try turns it into the ValueError); an RGB image is not touched
NormaliseMode(mode, convertible, loadable) ==
    LET composed == IF mode \in {"RGBA", "LA", "P"}
                    THEN (IF loadable THEN "RGB" ELSE "load_error")
                    ELSE IF mode \notin {"RGB", "L", "1"}
                         THEN (IF convertible /\ loadable THEN "RGB" ELSE "raise")
                         ELSE mode
    IN  IF composed \in {"raise", "load_error"} THEN composed
        ELSE IF composed # "RGB"
             THEN (IF loadable THEN "RGB" ELSE "load_error")
             ELSE composed

\* image.convert(target)
ConvertMode(mode, target) == target

\* preprocess_image_for_ocr: to RGB if needed, to L for the enhancement,
\* back to RGB
PreprocessMode(mode) ==
    ConvertMode(ConvertMode(IF mode # "RGB" THEN ConvertMode(mode, "RGB") ELSE mode,
                            "L"),
                "RGB")

\* the lang argument of the three image_to_string calls, "" when absent
OcrLanguages == <<"fin+eng", "eng", "">>

\* the OCR is given up after the first language
OcrTiersOne == Len(OcrLanguages) - 2

\* the number of image_to_string calls in the nested try blocks
OcrTiers == Len(OcrLanguages)

Sentinel ==
    <<"K", "u", "v", "a", "s", "t", "a", SP, "e", "i", SP, "l", "ö", "y",
      "t", "y", "n", "y", "t", SP, "t", "e", "k", "s", "t", "i", "ä", ".",
      SP, "V", "a", "r", "m", "i", "s", "t", "a", SP, "e", "t", "t", "ä",
      SP, "k", "u", "v", "a", SP, "o", "n", SP, "s", "e", "l", "k", "e",
      "ä", SP, "j", "a", SP, "s", "i", "s", "ä", "l", "t", "ä", "ä", SP,
      "l", "u", "e", "t", "t", "a", "v", "a", "a", SP, "t", "e", "k", "s",
      "t", "i", "ä", ".">>

\* text.strip() is returned as it is, also when it is empty
FinalTextNoSentinel(text) == Strip(text)

\* text = text.strip(); if not text: return the sentinel; return text
FinalText(text) == IF Strip(text) = <<>> THEN Sentinel ELSE Strip(text)


\* ------------------------------------------------------------------------
\* Inputs of the repair specification
\* ------------------------------------------------------------------------
\* {"a":1}
ObjFlat == <<LB, Q, "a", Q, ":", "1", RB>>
\* {"a":{"b":1}}
ObjNested == <<LB, Q, "a", Q, ":", LB, Q, "b", Q, ":", "1", RB, RB>>
\* {}
ObjEmpty == <<LB, RB>>
\* {"a": [1, null]}
ObjArray == <<LB, Q, "a", Q, ":", SP, "[", "1", ",", SP, "n", "u", "l", "l", "]", RB>>
\* {"a":"b\"c"}
ObjEscape == <<LB, Q, "a", Q, ":", Q, "b", BS, Q, "c", Q, RB>>
\* {"a":"}"}
ObjCloseInString == <<LB, Q, "a", Q, ":", Q, RB, Q, RB>>
\* {"a":"{"}
ObjOpenInString == <<LB, Q, "a", Q, ":", Q, LB, Q, RB>>
\* {"a":"{}"}
ObjPairInString == <<LB, Q, "a", Q, ":", Q, LB, RB, Q, RB>>
\* {"a":"```"}
ObjFenceInString == <<LB, Q, "a", Q, ":", Q, BT, BT, BT, Q, RB>>

\* {"a":99...9} with 4301 digits
ObjLongInt == <<LB, Q, "a", Q, ":", "9*4301", RB>>
\* {"a":[[...]]} with 1000 arrays
ObjDeep == <<LB, Q, "a", Q, ":", "[*1000", "]*1000", RB>>

JsonObjects ==
    {ObjFlat, ObjNested, ObjEmpty, ObjArray, ObjEscape,
     ObjCloseInString, ObjOpenInString, ObjPairInString, ObjFenceInString,
     ObjLongInt, ObjDeep}

\* brace-free leading prose
ProsePrefixes ==
    {<<>>, <<"H", "i", ":", NL>>, <<"o", "k", SP>>, <<BT, "x", BT, SP>>}

TrailingProse ==
    {<<>>, <<NL, "D", "o", "n", "e", ".">>, <<SP, RB>>, <<SP, LB, "x">>}

FenceKinds == {"none", "json", "JSON", "j\\u017fon", "bare"}

FenceOpen(kind) ==
    CASE kind = "json" -> <<BT, BT, BT, "j", "s", "o", "n", NL>>
      [] kind = "JSON" -> <<BT, BT, BT, "J", "S", "O", "N", NL>>
      [] kind = "j\\u017fon" -> <<BT, BT, BT, "j", "U+017F", "o", "n", NL>>
      [] kind = "bare" -> <<BT, BT, BT, NL>>
      [] OTHER -> <<>>

FenceClose(kind) == IF kind = "none" THEN <<>> ELSE <<NL, BT, BT, BT>>

Framed(prose, kind, x, trail) ==
    prose \o FenceOpen(kind) \o x \o FenceClose(kind) \o trail

\* ```json ... ``` around an output of the repair
WrapInFence(y) == FenceOpen("json") \o y \o FenceClose("json")

RawAlphabet == {LB, RB, Q, ":", "a", SP, BT, "U+00A0"}

RawTexts == UNION {[1..n -> RawAlphabet] : n \in 0..MaxRawLen}

NotRun == [ok |-> FALSE, err |-> "notrun", val |-> <<>>]

\* ------------------------------------------------------------------------
\* Each specification below exercises one component; the variables of the
\* other components stay at these values
\* ------------------------------------------------------------------------
NoOutput == [kind |-> "none", w |-> 0, h |-> 0]

DetectIdle ==
    /\ dt_image = [W |-> 0, H |-> 0, info_empty |-> TRUE, from_file |-> FALSE,
                   loadable |-> TRUE]
    /\ dt_opencv = FALSE
    /\ dt_pc = "idle"
    /\ dt_white = SameImage
    /\ dt_m = 1
    /\ dt_k = 1
    /\ dt_best = NoBest
    /\ dt_score = FloatZero
    /\ dt_errs = {}
    /\ dt_out = NoOutput
    /\ dt_outs = <<>>
    /\ dt_log = <<>>

ChatIdle ==
    /\ ch_service = "none"
    /\ ch_history = <<>>
    /\ ch_doc = 0
    /\ ch_msg = 0
    /\ ch_messages = <<>>
    /\ ch_pc = "idle"

FactoryIdle ==
    /\ fa_tag = <<>>
    /\ fa_kwargs = NoKwargs
    /\ fa_result = NoService
    /\ fa_pc = "idle"

\* the session state after the "Alusta session state" block of app.py
SessionStart ==
    /\ chat_history = <<>>
    /\ document_text = NoText
    /\ document_name = "None"
    /\ ai_service = "None"
    /\ receipt_data = NoReceipt
    /\ receipt_image = NoImage
    /\ purchase_analysis = NoAnalysis
    /\ sent_history = <<>>

SessionIdle == SessionStart

NoFile == [type |-> <<>>, name |-> <<>>]

NoFirstCall == [called |-> FALSE, result |-> ExPending, stages |-> <<>>, text |-> <<>>]

\* before extract_text is called
ExtractStart ==
    /\ ex_file = NoFile
    /\ ex_route = "none"
    /\ ex_read = FALSE
    /\ ex_bytes = "none"
    /\ ex_mode = "none"
    /\ ex_stages = <<>>
    /\ ex_tier = 0
    /\ ex_text = <<>>
    /\ ex_result = ExPending
    /\ ex_pos = "start"
    /\ ex_first = NoFirstCall

ExtractIdle == ex_pc = "idle" /\ ExtractStart

OllamaIdle ==
    /\ ol_mode = "none"
    /\ ol_lib = FALSE
    /\ ol_env = "unset"
    /\ ol_env0 = "unset"
    /\ ol_pc = <<>>
    /\ ol_call = <<>>
    /\ ol_orig = <<>>
    /\ ol_before = <<>>
    /\ ol_reqenv = <<>>
    /\ ol_result = <<>>
    /\ ol_failure = <<>>
    /\ ol_requests = <<>>

RepairIdle ==
    /\ rp_in = <<>>
    /\ rp_x = <<>>
    /\ rp_out = NotRun
    /\ rp_re = NotRun
    /\ rp_pc = "idle"

\* ------------------------------------------------------------------------
\* The repair specification: one call on the input, then one call on the
\* fenced output of the first
\* ------------------------------------------------------------------------
InitRepair ==
    /\ \/ /\ rp_x \in JsonObjects
          /\ \E prose \in ProsePrefixes, kind \in FenceKinds, trail \in TrailingProse :
                rp_in = Framed(prose, kind, rp_x, trail)
       \/ /\ rp_x = <<>>
          /\ rp_in \in RawTexts
    /\ rp_out = NotRun
    /\ rp_re = NotRun
    /\ rp_pc = "ready"
    /\ DetectIdle
    /\ ChatIdle
    /\ OllamaIdle
    /\ FactoryIdle
    /\ SessionIdle
    /\ ExtractIdle

Repair ==
    /\ rp_pc = "ready"
    /\ rp_out' = extract_json_from_text(rp_in)
    /\ rp_pc' = "done"
    /\ UNCHANGED <<rp_in, rp_x, rp_re>>
    /\ UNCHANGED <<detectVars, chatVars, ollamaVars, factoryVars, sessionVars, extractVars>>

RepairFenced ==
    /\ rp_pc = "done"
    /\ rp_out.ok
    /\ rp_re' = extract_json_from_text(WrapInFence(rp_out.val))
    /\ rp_pc' = "refenced"
    /\ UNCHANGED <<rp_in, rp_x, rp_out>>
    /\ UNCHANGED <<detectVars, chatVars, ollamaVars, factoryVars, sessionVars, extractVars>>

NextRepair == Repair \/ RepairFenced

SpecRepair == InitRepair /\ [][NextRepair]_vars

\* ------------------------------------------------------------------------
\* Inputs of the detector specification
\* ------------------------------------------------------------------------
Images ==
    {[W |-> s[1], H |-> s[2], info_empty |-> e, from_file |-> c[1], loadable |-> c[2]] :
        s \in {<<100, 300>>, <<300, 300>>}, e \in BOOLEAN,
        c \in {<<FALSE, TRUE>>, <<TRUE, TRUE>>, <<TRUE, FALSE>>}}

\* an upright rectangle
PolyRect == <<<<10, 30>>, <<80, 30>>, <<80, 250>>, <<10, 250>>>>
\* a tilted quadrilateral whose upper edge is longer than 100 pixels
PolyTilted == <<<<5, 5>>, <<95, 60>>, <<95, 290>>, <<5, 240>>>>
\* a rectangle closer than the margin to the left and top edges
PolyNearEdge == <<<<5, 8>>, <<60, 8>>, <<60, 200>>, <<5, 200>>>>
\* a rectangle at most 50 pixels wide
PolyNarrow == <<<<10, 10>>, <<50, 10>>, <<50, 290>>, <<10, 290>>>>
\* a triangle
PolyTriangle == <<<<10, 10>>, <<90, 150>>, <<10, 290>>>>
\* a near-square hexagon
PolyHexagon == <<<<20, 10>>, <<80, 10>>, <<95, 50>>, <<80, 95>>, <<20, 95>>, <<5, 50>>>>
\* a region below 10% of either image
PolySmall == <<<<40, 40>>, <<60, 40>>, <<60, 60>>, <<40, 60>>>>
\* the frame of the 100 x 300 image, above 90% of it
PolyFrame == <<<<0, 0>>, <<99, 0>>, <<99, 299>>, <<0, 299>>>>
\* a region whose crop with margin covers the whole 100 x 300 image
PolyWide == <<<<15, 15>>, <<85, 15>>, <<85, 285>>, <<15, 285>>>>

\* a near-square triangle
PolySquat == <<<<5, 10>>, <<95, 10>>, <<50, 95>>>>
\* a triangle and a rectangle whose scores area_ratio x 1.2 and
\* area_ratio x 1.5 are the same real number in the 100 x 300 image
PolyTieTriangle == <<<<10, 20>>, <<59, 20>>, <<10, 175>>>>
PolyTieRect == <<<<10, 20>>, <<59, 20>>, <<59, 82>>, <<10, 82>>>>
\* the upright rectangle, five pixels to the right
PolyRectShifted == <<<<15, 30>>, <<85, 30>>, <<85, 250>>, <<15, 250>>>>
\* a quadrilateral standing on a corner
PolyKite == <<<<50, 10>>, <<95, 150>>, <<50, 290>>, <<5, 160>>>>

\* a contour of four points whose approximation is a triangle: the box of
\* the contour has the aspect ratio 97/81, that of the triangle 97/80
ContourNearTriangle == <<<<10, 10>>, <<89, 10>>, <<90, 13>>, <<50, 106>>>>
ApproxNearTriangle == <<<<10, 10>>, <<89, 10>>, <<50, 106>>>>
\* a contour of five points whose approximation is a rectangle
ContourNearRect == <<<<20, 40>>, <<50, 38>>, <<80, 40>>, <<80, 240>>, <<20, 240>>>>
ApproxNearRect == <<<<20, 40>>, <<80, 40>>, <<80, 240>>, <<20, 240>>>>

\* contours that approxPolyDP gives back point for point
Polygons ==
    {PolyRect, PolyTilted, PolyNearEdge, PolyNarrow, PolyTriangle,
     PolyHexagon, PolySmall, PolyFrame, PolyWide, PolySquat,
     PolyRectShifted, PolyKite, PolyTieTriangle, PolyTieRect}

\* contours with an approximation of fewer points
Approximated ==
    {<<ContourNearTriangle, ApproxNearTriangle>>, <<ContourNearRect, ApproxNearRect>>}

\* what one threshold / morphology / findContours round can give
CvOutcomes ==
    {[found |-> "raise", largest |-> <<>>, approx |-> <<>>],
     [found |-> "none", largest |-> <<>>, approx |-> <<>>]}
        \cup {[found |-> "contour", largest |-> p, approx |-> p] : p \in Polygons}
        \cup {[found |-> "contour", largest |-> c[1], approx |-> c[2]] :
                    c \in Approximated}

\* ------------------------------------------------------------------------
\* The detector specification: one call of detect_and_crop_receipt
\* ------------------------------------------------------------------------
InitDetect ==
    /\ dt_image \in Images
    /\ dt_opencv \in BOOLEAN
    /\ dt_pc = "start"
    /\ dt_white = SameImage
    /\ dt_m = 1
    /\ dt_k = 1
    /\ dt_best = NoBest
    /\ dt_score = FloatZero
    /\ dt_errs = {}
    /\ dt_out = NoOutput
    /\ dt_outs = <<>>
    /\ dt_log = <<>>
    /\ RepairIdle
    /\ ChatIdle
    /\ OllamaIdle
    /\ FactoryIdle
    /\ SessionIdle
    /\ ExtractIdle

Unchanged(image) == [kind |-> "image", w |-> image.W, h |-> image.H]

\* lines 126-137: the backend test, the white-background pass and the test
\* of its result.  Lines 131-137 are under no try: the comparison raises
\* when it has to load pixel data that cannot be loaded, and tobytes() of the
\* comparison or one of the two np.array calls can raise (MemoryError)
WhitePass ==
    /\ dt_pc = "start"
    /\ IF ~dt_opencv
       THEN /\ dt_out' = Unchanged(dt_image)
            /\ dt_pc' = "done"
            /\ UNCHANGED <<dt_white, dt_errs>>
       ELSE \E outs \in [1..3 -> CvOutcomes] : \E raises \in BOOLEAN :
            LET result == detect_white_background_region(dt_image, dt_opencv, outs)
                differs == DiffersFromImage(dt_image, result)
                reached == ComparesPixels(dt_image, result) \/ differs
            IN  /\ dt_white' = result
                /\ IF (ComparesPixels(dt_image, result) /\ ~dt_image.loadable)
                      \/ (raises /\ reached)
                   THEN /\ dt_out' = Propagated
                        /\ dt_errs' = (IF result.raised THEN {"white"} ELSE {})
                                          \cup {"compare"}
                        /\ dt_pc' = "done"
                   ELSE /\ dt_errs' = IF result.raised THEN {"white"} ELSE {}
                        /\ IF differs /\ RetainsEnough(dt_image, result)
                           THEN /\ dt_out' = [kind |-> "white_crop",
                                              w |-> result.rect.w, h |-> result.rect.h]
                                /\ dt_pc' = "done"
                           ELSE /\ dt_out' = dt_out
                                /\ dt_pc' = "pass2"
    /\ UNCHANGED <<dt_image, dt_opencv, dt_m, dt_k, dt_best, dt_score, dt_outs, dt_log>>
    /\ UNCHANGED <<repairVars, chatVars, ollamaVars, factoryVars, sessionVars, extractVars>>

\* lines 140-171: array conversion, grayscale, CLAHE
Pass2Setup ==
    /\ dt_pc = "pass2"
    /\ \E raises \in BOOLEAN :
        IF raises
        THEN /\ dt_out' = OnOuterError(dt_image)
             /\ dt_errs' = dt_errs \cup {"setup"}
             /\ dt_pc' = "done"
        ELSE /\ dt_pc' = "combos"
             /\ UNCHANGED <<dt_out, dt_errs>>
    /\ UNCHANGED <<dt_image, dt_opencv, dt_white, dt_m, dt_k, dt_best, dt_score, dt_outs, dt_log>>
    /\ UNCHANGED <<repairVars, chatVars, ollamaVars, factoryVars, sessionVars, extractVars>>

\* lines 173-224: one (method, kernel size) round; an exception leaves the
\* kernel loop of the method ("except: continue")
Pass2ComboOf(outcomes, logged) ==
    /\ dt_pc = "combos"
    /\ \E o \in outcomes :
        LET survives ==
                o.found = "contour" /\ AreaRatioOk(ContourArea2(o.largest), dt_image)
            score == Score(o.largest, o.approx, Methods[dt_m], dt_image)
            nextM == IF o.found = "raise" \/ dt_k = Len(kernel_sizes) THEN dt_m + 1 ELSE dt_m
            nextK == IF o.found = "raise" \/ dt_k = Len(kernel_sizes) THEN 1 ELSE dt_k + 1
        IN  /\ dt_errs' = IF o.found = "raise" THEN dt_errs \cup {"method"} ELSE dt_errs
            /\ IF survives /\ Better(score, dt_score)
               THEN /\ dt_score' = score
                    /\ dt_best' = [largest |-> o.largest, approx |-> o.approx]
               ELSE UNCHANGED <<dt_score, dt_best>>
            /\ dt_m' = nextM
            /\ dt_k' = nextK
            /\ dt_pc' = IF nextM > Len(Methods) THEN "rectify" ELSE "combos"
            /\ dt_log' = IF logged
                         THEN Append(dt_log, [method |-> dt_m, kernel |-> dt_k, found |-> o])
                         ELSE dt_log
    /\ UNCHANGED <<dt_image, dt_opencv, dt_white, dt_out, dt_outs>>
    /\ UNCHANGED <<repairVars, chatVars, ollamaVars, factoryVars, sessionVars, extractVars>>

Pass2Combo == Pass2ComboOf(CvOutcomes, FALSE)

\* lines 226-299: no candidate, perspective warp, or bounding-box crop
Rectify ==
    /\ dt_pc = "rectify"
    /\ IF dt_best = NoBest
       THEN /\ dt_out' = Unchanged(dt_image)
            /\ UNCHANGED dt_errs
       ELSE \E raises \in BOOLEAN :
            LET rect == OrderCorners(dt_best.approx)
                crop == CropWithMargin(dt_image, BoundingRect(dt_best.largest))
            IN  IF raises
                THEN /\ dt_out' = OnOuterError(dt_image)
                     /\ dt_errs' = dt_errs \cup {"rectify"}
                ELSE /\ dt_errs' = dt_errs
                     /\ dt_out' =
                          IF /\ Len(dt_best.approx) = 4
                             /\ maxWidth(rect) > MinWarpSide
                             /\ maxHeight(rect) > MinWarpSide
                          THEN [kind |-> "warped", w |-> maxWidth(rect), h |-> maxHeight(rect)]
                          ELSE [kind |-> "bbox_crop", w |-> crop.w, h |-> crop.h]
    /\ dt_pc' = "done"
    /\ UNCHANGED <<dt_image, dt_opencv, dt_white, dt_m, dt_k, dt_best, dt_score, dt_outs, dt_log>>
    /\ UNCHANGED <<repairVars, chatVars, ollamaVars, factoryVars, sessionVars, extractVars>>

NextDetect == WhitePass \/ Pass2Setup \/ Pass2Combo \/ Rectify

SpecDetect == InitDetect /\ [][NextDetect]_vars

\* ------------------------------------------------------------------------
\* The white-pass specification: one call of detect_white_background_region
\* on an image and on what its three threshold rounds find
\* ------------------------------------------------------------------------
InitWhite ==
    /\ dt_image \in Images
    /\ dt_opencv \in BOOLEAN
    /\ dt_outs \in [1..Len(WhiteThresholds) -> CvOutcomes]
    /\ dt_pc = "white"
    /\ dt_white = SameImage
    /\ dt_m = 1
    /\ dt_k = 1
    /\ dt_best = NoBest
    /\ dt_score = FloatZero
    /\ dt_errs = {}
    /\ dt_out = NoOutput
    /\ dt_log = <<>>
    /\ RepairIdle
    /\ ChatIdle
    /\ OllamaIdle
    /\ FactoryIdle
    /\ SessionIdle
    /\ ExtractIdle

\* lines 43-111
WhiteRegion ==
    /\ dt_pc = "white"
    /\ dt_white' = detect_white_background_region(dt_image, dt_opencv, dt_outs)
    /\ dt_pc' = "white_done"
    /\ UNCHANGED <<dt_image, dt_opencv, dt_m, dt_k, dt_best, dt_score, dt_errs,
                   dt_out, dt_outs, dt_log>>
    /\ UNCHANGED <<repairVars, chatVars, ollamaVars, factoryVars, sessionVars, extractVars>>

NextWhite == WhiteRegion

SpecWhite == InitWhite /\ [][NextWhite]_vars

\* ------------------------------------------------------------------------
\* The selection specification: the method and kernel loops of the fallback
\* pass on the 100 x 300 image, with the outcome of every round kept
\* ------------------------------------------------------------------------
\* every round finds a contour: one below 10% of the image, or a triangle
\* or a rectangle with the same score
SelectionOutcomes ==
    {[found |-> "contour", largest |-> p, approx |-> p] :
        p \in {PolySmall, PolyTieTriangle, PolyTieRect}}

InitSelect ==
    /\ dt_image \in {i \in Images : i.W = 100 /\ i.info_empty /\ ~i.from_file}
    /\ dt_opencv = TRUE
    /\ dt_outs = <<>>
    /\ dt_pc = "combos"
    /\ dt_white = SameImage
    /\ dt_m = 1
    /\ dt_k = 1
    /\ dt_best = NoBest
    /\ dt_score = FloatZero
    /\ dt_errs = {}
    /\ dt_out = NoOutput
    /\ dt_log = <<>>
    /\ RepairIdle
    /\ ChatIdle
    /\ OllamaIdle
    /\ FactoryIdle
    /\ SessionIdle
    /\ ExtractIdle

Pass2ComboLogged == Pass2ComboOf(SelectionOutcomes, TRUE)

NextSelect == Pass2ComboLogged

SpecSelect == InitSelect /\ [][NextSelect]_vars


\* ------------------------------------------------------------------------
\* The chat-request specification: chat builds its messages and hands them
\* to the backend
\* ------------------------------------------------------------------------
\* the history of n entries: entry i has the text i, roles alternate from
\* first; an entry may lack its role key
HistoryFrom(n, first) ==
    [i \in 1..n |->
        [role |-> IF first = "absent" THEN "absent"
                  ELSE IF (i % 2 = 1) = (first = "user") THEN "user" ELSE "assistant",
         content |-> [kind |-> "history", n |-> i]]]

InitChat ==
    /\ ch_service \in {"openai", "ollama"}
    /\ \E n \in 0..MaxHistory, first \in {"user", "assistant", "absent"} :
          ch_history = HistoryFrom(n, first)
    /\ ch_doc \in {1, 2}
    /\ ch_msg \in {1, 2}
    /\ ch_messages = <<>>
    /\ ch_pc = "ready"
    /\ RepairIdle
    /\ DetectIdle
    /\ OllamaIdle
    /\ FactoryIdle
    /\ SessionIdle
    /\ ExtractIdle

OpenAIChat ==
    /\ ch_pc = "ready"
    /\ ch_service = "openai"
    /\ ch_messages' = OpenAIChatMessages(ch_doc, ch_msg, ch_history)
    /\ ch_pc' = "sent"
    /\ UNCHANGED <<ch_service, ch_history, ch_doc, ch_msg>>
    /\ UNCHANGED <<repairVars, detectVars, ollamaVars, factoryVars, sessionVars, extractVars>>

OllamaChat ==
    /\ ch_pc = "ready"
    /\ ch_service = "ollama"
    /\ ch_messages' = OllamaChatMessages(ch_doc, ch_msg, ch_history)
    /\ ch_pc' = "sent"
    /\ UNCHANGED <<ch_service, ch_history, ch_doc, ch_msg>>
    /\ UNCHANGED <<repairVars, detectVars, ollamaVars, factoryVars, sessionVars, extractVars>>

NextChat == OpenAIChat \/ OllamaChat

SpecChat == InitChat /\ [][NextChat]_vars


\* ------------------------------------------------------------------------
\* The local-backend specifications: NumCalls calls of OllamaService
\* operations, each a run of save / set / request / restore steps.  In
\* SpecOllama a call starts only when no other call is in flight (the
\* callers are synchronous); in SpecOllamaInterleaved the steps of the
\* calls interleave (one Streamlit script thread per session, one process
\* environment).
\* ------------------------------------------------------------------------
Calls == 1..NumCalls

Operations == {"chat", "extract_receipt", "analyze_purchases"}

BaseUrls == {DefaultBaseUrl, "http://hostA:11434", "http://hostB:11434"}

PriorOverrides == {"unset", "http://hostA:11434", "http://other:11434"}

RequestOutcomes == {"ok", "ImportError", "ConnectionError", "ConnectionText", "other"}

\* what client.chat.completions.create does: it returns or raises after the
\* client has attempted the request `sent` times.  The client makes the
\* request again, up to max_retries times, when it could not connect, timed
\* out or was answered 408, 409, 429 or 5xx: it returns or raises another
\* error ("other") at the first attempt that does not fail in this way, and
\* raises the failure of the last attempt ("retryable") when all of them
\* do.  What the encoding of the request raises ends the first attempt and
\* is raised at once
OpenAIOutcomes ==
    {[result |-> r, sent |-> n] : r \in {"ok", "other"}, n \in 1..(max_retries + 1)}
        \cup {[result |-> "retryable", sent |-> max_retries + 1],
              [result |-> "UnicodeEncodeError", sent |-> 1]}

NoCall == [backend |-> "none", op |-> "none", base_url |-> "none"]

InFlight(c) == ol_pc[c] \notin {"idle", "done"}

InitOllamaIn(mode) ==
    /\ ol_mode = mode
    /\ ol_lib \in BOOLEAN
    /\ ol_env0 \in PriorOverrides
    /\ ol_env = ol_env0
    /\ ol_pc = [c \in Calls |-> "idle"]
    /\ ol_call = [c \in Calls |-> NoCall]
    /\ ol_orig = [c \in Calls |-> "None"]
    /\ ol_before = [c \in Calls |-> "unset"]
    /\ ol_reqenv = [c \in Calls |-> "norequest"]
    /\ ol_result = [c \in Calls |-> "none"]
    /\ ol_failure = [c \in Calls |-> "none"]
    /\ ol_requests = [c \in Calls |-> 0]
    /\ RepairIdle
    /\ DetectIdle
    /\ ChatIdle
    /\ FactoryIdle
    /\ SessionIdle
    /\ ExtractIdle

\* entry of the operation, the test of the package ("raise ImportError"
\* inside the try, so the except clauses of the operation make the error),
\* original_host = ...
Save(c) ==
    /\ ol_pc[c] = "idle"
    /\ ol_mode = "sequential" => \A d \in Calls : ~InFlight(d)
    /\ \E op \in Operations, base_url \in BaseUrls :
          /\ ol_call' = [ol_call EXCEPT ![c] =
                [backend |-> "ollama", op |-> op, base_url |-> base_url]]
          /\ IF ol_lib
             THEN /\ ol_orig' = [ol_orig EXCEPT ![c] = SaveHost(ol_env)]
                  /\ ol_pc' = [ol_pc EXCEPT ![c] = "saved"]
                  /\ UNCHANGED ol_result
             ELSE /\ ol_result' = [ol_result EXCEPT ![c] = ErrorOf(op, "ImportError")]
                  /\ ol_pc' = [ol_pc EXCEPT ![c] = "done"]
                  /\ UNCHANGED ol_orig
    /\ ol_before' = [ol_before EXCEPT ![c] = ol_env]
    /\ UNCHANGED <<ol_mode, ol_lib, ol_env, ol_env0, ol_reqenv, ol_failure,
                   ol_requests>>
    /\ UNCHANGED <<repairVars, detectVars, chatVars, factoryVars, sessionVars, extractVars>>

Set(c) ==
    /\ ol_pc[c] = "saved"
    /\ ol_env' = SetHost(ol_env, ol_call[c].base_url)
    /\ ol_pc' = [ol_pc EXCEPT ![c] = "set"]
    /\ UNCHANGED <<ol_mode, ol_lib, ol_env0, ol_call, ol_orig, ol_before,
                   ol_reqenv, ol_result, ol_failure, ol_requests>>
    /\ UNCHANGED <<repairVars, detectVars, chatVars, factoryVars, sessionVars, extractVars>>

\* ollama.chat(...) returns or raises; the client of the ollama package
\* sends its request once
Request(c) ==
    /\ ol_call[c].backend = "ollama"
    /\ ol_pc[c] = "set"
    /\ \E outcome \in RequestOutcomes :
          /\ ol_result' = [ol_result EXCEPT ![c] =
                IF outcome = "ok" THEN "returned" ELSE ErrorOf(ol_call[c].op, outcome)]
          /\ ol_failure' = [ol_failure EXCEPT ![c] =
                IF outcome = "ok" THEN "none" ELSE outcome]
          /\ ol_pc' = [ol_pc EXCEPT ![c] = "requested"]
    /\ ol_requests' = [ol_requests EXCEPT ![c] = @ + 1]
    /\ ol_reqenv' = [ol_reqenv EXCEPT ![c] = ol_env]
    /\ UNCHANGED <<ol_mode, ol_lib, ol_env, ol_env0, ol_call, ol_orig, ol_before>>
    /\ UNCHANGED <<repairVars, detectVars, chatVars, factoryVars, sessionVars, extractVars>>

\* entry of an OpenAIService operation: the messages are built
Invoke(c) ==
    /\ ol_pc[c] = "idle"
    /\ ol_mode = "sequential" => \A d \in Calls : ~InFlight(d)
    /\ \E op \in Operations :
          ol_call' = [ol_call EXCEPT ![c] =
              [backend |-> "openai", op |-> op, base_url |-> "none"]]
    /\ ol_before' = [ol_before EXCEPT ![c] = ol_env]
    /\ ol_pc' = [ol_pc EXCEPT ![c] = "built"]
    /\ UNCHANGED <<ol_mode, ol_lib, ol_env, ol_env0, ol_orig, ol_reqenv,
                   ol_result, ol_failure, ol_requests>>
    /\ UNCHANGED <<repairVars, detectVars, chatVars, factoryVars, sessionVars, extractVars>>

\* self.client.chat.completions.create(...) returns or raises, with the
\* requests the client sends inside that one call; then the operation
\* returns the content or raises the wrapped exception
Create(c) ==
    /\ ol_call[c].backend = "openai"
    /\ ol_pc[c] = "built"
    /\ \E outcome \in OpenAIOutcomes :
          /\ ol_result' = [ol_result EXCEPT ![c] =
                IF outcome.result = "ok" THEN "returned"
                ELSE OpenAIErrorOf(ol_call[c].op, outcome.result)]
          /\ ol_failure' = [ol_failure EXCEPT ![c] =
                IF outcome.result = "ok" THEN "none" ELSE outcome.result]
          /\ ol_requests' = [ol_requests EXCEPT ![c] = @ + outcome.sent]
    /\ ol_pc' = [ol_pc EXCEPT ![c] = "done"]
    /\ UNCHANGED <<ol_mode, ol_lib, ol_env, ol_env0, ol_call, ol_orig, ol_before,
                   ol_reqenv>>
    /\ UNCHANGED <<repairVars, detectVars, chatVars, factoryVars, sessionVars, extractVars>>

\* the finally clause, then the return or the re-raise
Restore(c) ==
    /\ ol_pc[c] = "requested"
    /\ ol_env' = RestoreHost(ol_env, ol_orig[c])
    /\ ol_pc' = [ol_pc EXCEPT ![c] = "done"]
    /\ UNCHANGED <<ol_mode, ol_lib, ol_env0, ol_call, ol_orig, ol_before,
                   ol_reqenv, ol_result, ol_failure, ol_requests>>
    /\ UNCHANGED <<repairVars, detectVars, chatVars, factoryVars, sessionVars, extractVars>>

NextOllama ==
    \E c \in Calls :
        Save(c) \/ Set(c) \/ Request(c) \/ Restore(c) \/ Invoke(c) \/ Create(c)

SpecOllama == InitOllamaIn("sequential") /\ [][NextOllama]_vars

SpecOllamaInterleaved == InitOllamaIn("interleaved") /\ [][NextOllama]_vars


\* ------------------------------------------------------------------------
\* The factory specification: one call of create_ai_service
\* ------------------------------------------------------------------------
ServiceTags ==
    {TagOpenAI, TagOllama,
     <<"O", "p", "e", "n", "A", "I">>, <<"O", "P", "E", "N", "A", "I">>,
     <<"O", "l", "l", "a", "m", "a">>, <<"o", "L", "L", "A", "M", "a">>,
     <<"o", "p", "e", "n", "a", "i", " ">>, <<"o", "p", "e", "n">>,
     <<"l", "o", "c", "a", "l">>, <<>>, <<"0", "p", "e", "n", "a", "i">>,
     <<"o", "p", "e", "n", "a", "U+0130">>, <<"O", "L", "L", "U+00C4", "M", "A">>,
     <<"U+FF2F", "U+FF30", "U+FF25", "U+FF2E", "U+FF21", "U+FF29">>}

InitFactory ==
    /\ fa_tag \in ServiceTags
    /\ fa_kwargs \in [api_key : {"absent", "", "sk-1"},
                      model : {"absent", "gpt-4o"},
                      base_url : {"absent", "http://hostA:11434"}]
    /\ fa_result = NoService
    /\ fa_pc = "ready"
    /\ RepairIdle
    /\ DetectIdle
    /\ ChatIdle
    /\ OllamaIdle
    /\ SessionIdle
    /\ ExtractIdle

CreateService ==
    /\ fa_pc = "ready"
    /\ fa_result' = create_ai_service(fa_tag, fa_kwargs)
    /\ fa_pc' = "done"
    /\ UNCHANGED <<fa_tag, fa_kwargs>>
    /\ UNCHANGED <<repairVars, detectVars, chatVars, ollamaVars, sessionVars, extractVars>>

NextFactory == CreateService

SpecFactory == InitFactory /\ [][NextFactory]_vars


\* ========================================================================
\* The Streamlit session: one action per widget handler of app.py
\* ========================================================================
\* a PDF and an image, each named and typed as what it is
UploadedFiles ==
    {[name |-> <<"a", ".", "p", "d", "f">>, type |-> PdfType],
     [name |-> <<"b", ".", "p", "n", "g">>,
      type |-> <<"i", "m", "a", "g", "e", "/", "p", "n", "g">>]}

\* uploaded_file.type and uploaded_file.type.startswith('image/')
IsImageFile(file) == file.type # <<>> /\ StartsWith(file.type, ImagePrefix)

\* outcomes of extract_text: an exception, a text, or "", which only the
\* PDF extraction returns (the image extraction returns its sentinel);
\* extract_text tests for a PDF first, by type or by name
ExtractOutcomes(file) ==
    CASE FileRoute(file) = "pdf" -> {"raise", "text", "empty"}
      [] FileRoute(file) = "image" -> {"raise", "text"}
      [] OTHER -> {"raise"}

\* each uploaded file with each outcome of extract_text(uploaded_file)
Extractions ==
    UNION {{[file |-> f, outcome |-> o] : o \in ExtractOutcomes(f)} :
              f \in UploadedFiles}

\* replies of ai_service.extract_receipt: an exception or a text
ReceiptReplies ==
    {[raised |-> TRUE, text |-> <<>>],
     [raised |-> FALSE, text |-> WrapInFence(ObjFlat)],
     [raised |-> FALSE, text |-> ObjNested],
     [raised |-> FALSE, text |-> ObjEmpty],
     [raised |-> FALSE, text |-> <<"n", "o">>]}

\* each reply with clean_json = extract_json_from_text(json_result)
RepairedReplies ==
    {[raised |-> reply.raised,
      clean |-> IF reply.raised THEN NotRun
                ELSE extract_json_from_text(reply.text)] : reply \in ReceiptReplies}

\* receipt_data = json.loads(clean_json); an exception of the call or a
\* ValueError of the repair leaves the old value
ParsedReceipt(reply, old) ==
    IF ~reply.raised /\ reply.clean.ok
    THEN [some |-> TRUE, json |-> reply.clean.val]
    ELSE old

\* the questions the three buttons of the left column store
ButtonPrompts ==
    {"extraction_prompt", "Erota kuittitiedot JSON-muotoon", "Analysoi ostokset"}

ButtonPairs(history) ==
    Cardinality({i \in 1..Len(history) : history[i].content \in ButtonPrompts})

\* outcomes of ai_service.chat and ai_service.analyze_purchases
CallOutcomes == {"ok", "raise"}

\* where a rerun or stop request ends the script run of a chat turn: nowhere
\* before the last append; at st.chat_message, st.write or st.spinner before
\* the call (lines 471, 474); at st.error after the call has raised (489).
\* RerunException and StopException are BaseException, which "except
\* Exception" at 487 does not catch
RunEnds == {"no", "before_call", "at_error"}

\* the user entries of chat turns that got no assistant entry
Interrupted(history) ==
    Cardinality({i \in 1..Len(history) :
        /\ history[i].role = "user"
        /\ i = Len(history) \/ history[i + 1].role = "user"})

\* the chat turns that stored no response
Unanswered(history) ==
    Interrupted(history)
        + Cardinality({i \in 1..Len(history) :
                          history[i].content = "Virhe AI-vastauksessa"})

OtherTurns(history) == ButtonPairs(history) + Unanswered(history)

\* the automatic extraction after a new text: ai_service.extract_receipt,
\* extract_json_from_text, json.loads; every failure keeps the old value
AutoReceipt(reply, old) ==
    IF ai_service = "None" THEN old ELSE ParsedReceipt(reply, old)

InitSession ==
    /\ SessionStart
    /\ RepairIdle
    /\ DetectIdle
    /\ ChatIdle
    /\ OllamaIdle
    /\ FactoryIdle
    /\ ExtractIdle

\* sidebar, lines 259-290: the service is created when a key is available
InitializeService ==
    /\ ai_service = "None"
    /\ ai_service' = "OpenAIService"
    /\ sent_history' = <<>>
    /\ UNCHANGED <<chat_history, document_text, document_name, receipt_data,
                   receipt_image, purchase_analysis>>
    /\ UNCHANGED <<repairVars, detectVars, chatVars, ollamaVars, factoryVars, extractVars>>

\* process_document, lines 81-170
ProcessDocument ==
    /\ \E extraction \in Extractions :
          LET file == extraction.file
              outcome == extraction.outcome
          IN
          IF outcome = "raise"
          THEN UNCHANGED <<chat_history, document_text, document_name,
                           receipt_data, receipt_image>>
          ELSE /\ document_text' = [some |-> TRUE, file |-> file.name,
                                    crops |-> 0, empty |-> (outcome = "empty")]
               /\ document_name' = file.name
               /\ chat_history' = <<>>
               /\ receipt_image' =
                    IF IsImageFile(file)
                    THEN [some |-> TRUE, file |-> file.name, crops |-> 0]
                    ELSE NoImage
               /\ \E reply \in RepairedReplies :
                     receipt_data' = AutoReceipt(reply, NoReceipt)
    /\ sent_history' = <<>>
    /\ UNCHANGED <<ai_service, purchase_analysis>>
    /\ UNCHANGED <<repairVars, detectVars, chatVars, ollamaVars, factoryVars, extractVars>>

\* "Tyhjennä dokumentti", lines 309-315
ClearDocument ==
    /\ TextTruthy(document_text)
    /\ document_text' = NoText
    /\ document_name' = "None"
    /\ chat_history' = <<>>
    /\ sent_history' = <<>>
    /\ UNCHANGED <<ai_service, receipt_data, receipt_image, purchase_analysis>>
    /\ UNCHANGED <<repairVars, detectVars, chatVars, ollamaVars, factoryVars, extractVars>>

\* "Tyhjennä keskustelu", lines 320-322
ClearConversation ==
    /\ chat_history' = <<>>
    /\ sent_history' = <<>>
    /\ UNCHANGED <<document_text, document_name, ai_service, receipt_data,
                   receipt_image, purchase_analysis>>
    /\ UNCHANGED <<repairVars, detectVars, chatVars, ollamaVars, factoryVars, extractVars>>

\* "Erota tärkeät tiedot", lines 360-385
ExtractInfo ==
    /\ document_text.some
    /\ Len(chat_history) + 2 <= MaxStored
    /\ OtherTurns(chat_history) < MaxOtherTurns
    /\ IF ai_service = "None"
       THEN UNCHANGED chat_history /\ sent_history' = <<>>
       ELSE /\ sent_history' = HistoryMessages(chat_history)
            /\ \E outcome \in CallOutcomes :
                 chat_history' =
                    IF outcome = "ok"
                    THEN AppendedPair(chat_history, "extraction_prompt", "response")
                    ELSE chat_history
    /\ UNCHANGED <<document_text, document_name, ai_service, receipt_data,
                   receipt_image, purchase_analysis>>
    /\ UNCHANGED <<repairVars, detectVars, chatVars, ollamaVars, factoryVars, extractVars>>

\* "Erota kuitti", lines 388-426
ExtractReceipt ==
    /\ document_text.some
    /\ Len(chat_history) + 2 <= MaxStored
    /\ OtherTurns(chat_history) < MaxOtherTurns
    /\ \E reply \in RepairedReplies :
         IF ai_service # "None" /\ ~reply.raised /\ reply.clean.ok
         THEN /\ receipt_data' = ParsedReceipt(reply, receipt_data)
              /\ purchase_analysis' = NoAnalysis
              /\ chat_history' =
                    AppendedPair(chat_history, "Erota kuittitiedot JSON-muotoon",
                                 "Kuittitiedot erotettu!")
         ELSE UNCHANGED <<receipt_data, purchase_analysis, chat_history>>
    /\ sent_history' = <<>>
    /\ UNCHANGED <<document_text, document_name, ai_service, receipt_image>>
    /\ UNCHANGED <<repairVars, detectVars, chatVars, ollamaVars, factoryVars, extractVars>>

\* "Analysoi ostokset" of the left column, lines 429-457
AnalyzePurchases ==
    /\ document_text.some
    /\ Len(chat_history) + 2 <= MaxStored
    /\ OtherTurns(chat_history) < MaxOtherTurns
    /\ \E outcome \in CallOutcomes :
         IF ai_service # "None" /\ ReceiptTruthy(receipt_data) /\ outcome = "ok"
         THEN /\ purchase_analysis' = [some |-> TRUE, of |-> receipt_data.json]
              /\ chat_history' =
                    AppendedPair(chat_history, "Analysoi ostokset",
                                 "Ostosanalyysi valmis!")
         ELSE UNCHANGED <<purchase_analysis, chat_history>>
    /\ sent_history' = <<>>
    /\ UNCHANGED <<document_text, document_name, ai_service, receipt_data,
                   receipt_image>>
    /\ UNCHANGED <<repairVars, detectVars, chatVars, ollamaVars, factoryVars, extractVars>>

\* st.chat_input, lines 460-490: the question is stored, the request is
\* built from chat_history[:-1], then the answer or the error text is stored
ChatInput ==
    /\ document_text.some
    /\ Len(chat_history) + 2 <= MaxStored
    /\ IF ai_service = "None"
       THEN UNCHANGED chat_history /\ sent_history' = <<>>
       ELSE \E ended \in RunEnds :
            LET stored == Appended(chat_history, Entry("user", "user_input"))
            IN  /\ ended # "no" => OtherTurns(chat_history) < MaxOtherTurns
                /\ sent_history' = IF ended = "before_call" THEN <<>>
                                   ELSE HistoryMessages(AllButLast(stored))
                /\ CASE ended = "before_call" -> chat_history' = stored
                     [] ended = "at_error" -> chat_history' = stored
                     [] OTHER ->
                          \E outcome \in CallOutcomes :
                             /\ outcome = "raise" =>
                                    OtherTurns(chat_history) < MaxOtherTurns
                             /\ chat_history' =
                                    AppendedPair(chat_history, "user_input",
                                                 IF outcome = "ok" THEN "response"
                                                 ELSE "Virhe AI-vastauksessa")
    /\ UNCHANGED <<document_text, document_name, ai_service, receipt_data,
                   receipt_image, purchase_analysis>>
    /\ UNCHANGED <<repairVars, detectVars, chatVars, ollamaVars, factoryVars, extractVars>>

\* "Raja kuva näillä koordinaateilla", lines 559-615: the stored image is
\* replaced before the OCR of the crop is attempted
CropImage ==
    /\ document_text.some
    /\ receipt_image.some
    /\ receipt_image.crops < MaxCrops
    /\ receipt_image' = [receipt_image EXCEPT !.crops = @ + 1]
    /\ \E outcome \in {"raise", "text"} :
         IF outcome = "raise"
         THEN UNCHANGED <<document_text, receipt_data, purchase_analysis>>
         ELSE /\ document_text' = [some |-> TRUE, file |-> receipt_image.file,
                                   crops |-> receipt_image.crops + 1,
                                   empty |-> FALSE]
              /\ purchase_analysis' = NoAnalysis
              /\ \E reply \in RepairedReplies :
                    receipt_data' = AutoReceipt(reply, NoReceipt)
    /\ sent_history' = <<>>
    /\ UNCHANGED <<chat_history, document_name, ai_service>>
    /\ UNCHANGED <<repairVars, detectVars, chatVars, ollamaVars, factoryVars, extractVars>>

\* "Analysoi ostokset" of the right column, lines 697-709
AnalyzePurchasesRight ==
    /\ document_text.some
    /\ ReceiptTruthy(receipt_data)
    /\ \E outcome \in CallOutcomes :
         IF ai_service # "None" /\ outcome = "ok"
         THEN purchase_analysis' = [some |-> TRUE, of |-> receipt_data.json]
         ELSE UNCHANGED purchase_analysis
    /\ sent_history' = <<>>
    /\ UNCHANGED <<chat_history, document_text, document_name, ai_service,
                   receipt_data, receipt_image>>
    /\ UNCHANGED <<repairVars, detectVars, chatVars, ollamaVars, factoryVars, extractVars>>

NextSession ==
    \/ InitializeService
    \/ ProcessDocument
    \/ ClearDocument
    \/ ClearConversation
    \/ ExtractInfo
    \/ ExtractReceipt
    \/ AnalyzePurchases
    \/ ChatInput
    \/ CropImage
    \/ AnalyzePurchasesRight

SpecSession == InitSession /\ [][NextSession]_vars


\* ========================================================================
\* The gateway specification: one call of extract_text on an uploaded file,
\* through extract_from_pdf or the stages of extract_from_image
\* ========================================================================
FileTypes ==
    {<<"a", "p", "p", "l", "i", "c", "a", "t", "i", "o", "n", "/", "p", "d", "f">>,
     <<"A", "P", "P", "L", "I", "C", "A", "T", "I", "O", "N", "/", "P", "D", "F">>,
     <<"i", "m", "a", "g", "e", "/", "p", "n", "g">>,
     <<"I", "m", "a", "g", "e", "/", "J", "P", "E", "G">>,
     <<"t", "e", "x", "t", "/", "p", "l", "a", "i", "n">>,
     <<>>,
     <<"a", "p", "p", "l", "i", "c", "a", "t", "i", "o", "n", "/", "o", "c", "t", "e", "t", "-", "s", "t", "r", "e", "a", "m">>}

FileNames ==
    {<<"a", ".", "p", "d", "f">>,
     <<"A", ".", "P", "D", "F">>,
     <<"a", ".", "j", "p", "g">>,
     <<"a", ".", "J", "P", "E", "G">>,
     <<"a", ".", "p", "n", "g">>,
     <<"a", ".", "g", "i", "f">>,
     <<"a", ".", "b", "m", "p">>,
     <<"a", ".", "T", "I", "F", "F">>,
     <<"a", ".", "t", "i", "f">>,
     <<"a", ".", "t", "x", "t">>,
     <<"a", ".", "p", "d", "f", ".", "t", "x", "t">>,
     <<"a", "p", "d", "f">>,
     <<>>,
     <<"a", ".", "w", "e", "b", "p">>,
     <<"a", ".", "G", "U+0130", "F">>}

Files == [type : FileTypes, name : FileNames]

\* what the bytes of an image file are: nothing, nothing PIL identifies, an
\* image that passes verify(), one that fails it but decodes, an MPO image,
\* and an image or an MPO image that Image.open identifies but whose pixel
\* data cannot be loaded (a truncated file)
BytesKinds ==
    {"empty", "unidentified", "valid", "unverified", "mpo", "truncated", "mpo_truncated"}

\* Image.load() of the opened image succeeds
Loadable(bytes) == bytes \notin {"truncated", "mpo_truncated"}

\* page.extract_text() of the pages of a PDF (<<>> for None or "")
PdfDocuments ==
    {<<>>, << <<>> >>, << <<"a">> >>, << <<"a">>, <<>>, <<"b">> >>, << <<SP>>, <<"c">> >>}

\* what pytesseract.image_to_string returns
OcrTexts ==
    {<<>>, <<SP, NL>>, <<"\f">>, <<"a">>, <<NL, "a">>,
     <<SP, "a", SP, "b", NL, "\f">>}

InitExtract ==
    /\ ex_pc = "start"
    /\ ExtractStart
    /\ RepairIdle
    /\ DetectIdle
    /\ ChatIdle
    /\ OllamaIdle
    /\ FactoryIdle
    /\ SessionIdle

\* extract_text, lines 582-601
ExtractText ==
    /\ ex_pc = "start"
    /\ \E file \in (IF ex_first.called THEN {ex_file} ELSE Files) :
         /\ ex_file' = file
         /\ ex_route' = FileRoute(file)
         /\ IF FileRoute(file) = "unsupported"
            THEN /\ ex_pc' = "done"
                 /\ ex_result' = ExRaised("Tiedostotyyppiä ei tueta", "none")
            ELSE /\ ex_pc' = FileRoute(file)
                 /\ UNCHANGED ex_result
    /\ UNCHANGED <<ex_read, ex_bytes, ex_mode, ex_stages, ex_tier, ex_text,
                   ex_pos, ex_first>>
    /\ UNCHANGED <<repairVars, detectVars, chatVars, ollamaVars, factoryVars,
                   sessionVars>>

\* extract_from_pdf, lines 412-444: file.read() gives the bytes from the
\* read position to the end and leaves the position at the end; pdfplumber
\* raises on an empty buffer; the same bytes give the same outcome
ExtractFromPdf ==
    /\ ex_pc = "pdf"
    /\ ex_read' = TRUE
    /\ ex_pos' = "end"
    /\ IF ex_pos = "end"
       THEN ex_result' = ExRaised("Virhe PDF-tiedoston lukemisessa", "pdfplumber")
       ELSE IF ex_first.called
       THEN ex_result' = ex_first.result
       ELSE \/ ex_result' = ExRaised("Virhe PDF-tiedoston lukemisessa", "pdfplumber")
            \/ \E pages \in PdfDocuments : ex_result' = ExReturned(JoinPages(pages))
    /\ ex_pc' = "done"
    /\ UNCHANGED <<ex_file, ex_route, ex_bytes, ex_mode, ex_stages, ex_tier, ex_text,
                   ex_first>>
    /\ UNCHANGED <<repairVars, detectVars, chatVars, ollamaVars, factoryVars,
                   sessionVars>>

\* extract_from_image, lines 457-502: the position is reset, the bytes are
\* read, an empty buffer raises ValueError, the position is reset again,
\* Image.open is tried (twice if it raises), an MPO image is copied, which
\* loads its pixel data (at 482, and again at 498 after the first copy
\* raised), and the except clauses at 572-579 wrap what was raised; a second
\* call reads the same bytes
OpenImage ==
    /\ ex_pc = "image"
    /\ ex_read' = TRUE
    /\ ex_pos' = "start"
    /\ \E bytes \in (IF ex_first.called THEN {ex_bytes} ELSE BytesKinds) :
         /\ ex_bytes' = bytes
         /\ CASE bytes = "empty" ->
                   /\ ex_result' = ExRaised("Virhe OCR-analyysissä", "Kuvatiedosto on tyhjä")
                   /\ ex_pc' = "done"
                   /\ UNCHANGED ex_mode
              [] bytes = "unidentified" ->
                   /\ ex_result' = ExRaised("Kuvatiedostoa ei voitu tunnistaa",
                                            "cannot identify image file")
                   /\ ex_pc' = "done"
                   /\ UNCHANGED ex_mode
              [] bytes = "mpo_truncated" ->
                   /\ ex_result' = ExRaised("Virhe OCR-analyysissä",
                                            "image file is truncated")
                   /\ ex_pc' = "done"
                   /\ UNCHANGED ex_mode
              [] OTHER ->
                   /\ \E mode \in (IF ex_first.called
                                    THEN {ex_first.stages[1].mode} ELSE Modes) :
                         ex_mode' = mode
                   /\ ex_pc' = "normalise"
                   /\ UNCHANGED ex_result
    /\ UNCHANGED <<ex_file, ex_route, ex_stages, ex_tier, ex_text, ex_first>>
    /\ UNCHANGED <<repairVars, detectVars, chatVars, ollamaVars, factoryVars,
                   sessionVars>>

Stage(name, mode, lang, raised) ==
    [stage |-> name, mode |-> mode, lang |-> lang, raised |-> raised]

\* extract_from_image, lines 504-527
Normalise ==
    /\ ex_pc = "normalise"
    /\ \E convertible \in (IF ex_first.called
                           THEN {~ex_first.stages[1].raised} ELSE BOOLEAN) :
         IF NormaliseMode(ex_mode, convertible, Loadable(ex_bytes))
                \in {"raise", "load_error"}
         THEN /\ ex_result' =
                    ExRaised("Virhe OCR-analyysissä",
                        IF NormaliseMode(ex_mode, convertible, Loadable(ex_bytes)) = "raise"
                        THEN "Kuvamuotoa ei voitu muuntaa RGB:ksi"
                        ELSE "image file is truncated")
              /\ ex_pc' = "done"
              /\ ex_stages' = Append(ex_stages, Stage("normalise", ex_mode, "", TRUE))
              /\ UNCHANGED ex_mode
         ELSE /\ ex_mode' = NormaliseMode(ex_mode, convertible, Loadable(ex_bytes))
              /\ ex_pc' = "detect"
              /\ ex_stages' = Append(ex_stages, Stage("normalise", ex_mode, "", FALSE))
              /\ UNCHANGED ex_result
    /\ UNCHANGED <<ex_file, ex_route, ex_read, ex_bytes, ex_tier, ex_text,
                   ex_pos, ex_first>>
    /\ UNCHANGED <<repairVars, detectVars, chatVars, ollamaVars, factoryVars,
                   sessionVars>>

\* image = detect_and_crop_receipt(image), line 531: the input itself or an
\* Image.fromarray of a three-channel array; what lines 131-137 of the
\* detector raise reaches the except clause at 574.  An image whose pixel
\* data cannot be loaded is not cropped: the detector raises, or without
\* its backend returns the input untouched
DetectStage ==
    /\ ex_pc = "detect"
    /\ \E raises \in (IF ex_first.called
                      THEN {ex_first.stages[Len(ex_stages) + 1].raised} ELSE BOOLEAN) :
         IF raises
         THEN /\ ex_stages' = Append(ex_stages,
                                     Stage("detect_and_crop_receipt", ex_mode, "", TRUE))
              /\ ex_result' = ExRaised("Virhe OCR-analyysissä", "detect_and_crop_receipt")
              /\ ex_pc' = "done"
              /\ UNCHANGED ex_mode
         ELSE /\ ex_stages' = Append(ex_stages,
                                     Stage("detect_and_crop_receipt", ex_mode, "", FALSE))
              /\ \E cropped \in (IF Loadable(ex_bytes) THEN BOOLEAN ELSE {FALSE}) :
                    ex_mode' = IF cropped THEN "RGB" ELSE ex_mode
              /\ ex_pc' = "preprocess"
              /\ UNCHANGED ex_result
    /\ UNCHANGED <<ex_file, ex_route, ex_read, ex_bytes, ex_tier, ex_text,
                   ex_pos, ex_first>>
    /\ UNCHANGED <<repairVars, detectVars, chatVars, ollamaVars, factoryVars,
                   sessionVars>>

\* image = preprocess_image_for_ocr(image), line 535: image.convert('L') at
\* 392 loads the pixel data of an image that reaches it unloaded, and what
\* that raises reaches the except clause at 574
PreprocessStage ==
    /\ ex_pc = "preprocess"
    /\ IF Loadable(ex_bytes)
       THEN /\ ex_stages' = Append(ex_stages,
                                   Stage("preprocess_image_for_ocr", ex_mode, "", FALSE))
            /\ ex_mode' = PreprocessMode(ex_mode)
            /\ ex_tier' = 1
            /\ ex_pc' = "ocr"
            /\ UNCHANGED ex_result
       ELSE /\ ex_stages' = Append(ex_stages,
                                   Stage("preprocess_image_for_ocr", ex_mode, "", TRUE))
            /\ ex_result' = ExRaised("Virhe OCR-analyysissä", "image file is truncated")
            /\ ex_pc' = "done"
            /\ UNCHANGED <<ex_mode, ex_tier>>
    /\ UNCHANGED <<ex_file, ex_route, ex_read, ex_bytes, ex_text, ex_pos, ex_first>>
    /\ UNCHANGED <<repairVars, detectVars, chatVars, ollamaVars, factoryVars,
                   sessionVars>>

\* one pytesseract.image_to_string call of the nested try blocks, lines
\* 540-559; what the last one raises reaches the except clause at 574
OcrCall ==
    /\ ex_pc = "ocr"
    /\ \/ /\ ex_first.called => ex_first.stages[Len(ex_stages) + 1].raised
          /\ ex_stages' = Append(ex_stages,
                 Stage("image_to_string", ex_mode, OcrLanguages[ex_tier], TRUE))
          /\ IF ex_tier < OcrTiers
             THEN /\ ex_tier' = ex_tier + 1
                  /\ UNCHANGED <<ex_pc, ex_result>>
             ELSE /\ ex_pc' = "done"
                  /\ ex_result' = ExRaised("Virhe OCR-analyysissä", "tesseract")
                  /\ UNCHANGED ex_tier
          /\ UNCHANGED ex_text
       \/ /\ ex_first.called => ~ex_first.stages[Len(ex_stages) + 1].raised
          /\ ex_stages' = Append(ex_stages,
                 Stage("image_to_string", ex_mode, OcrLanguages[ex_tier], FALSE))
          /\ \E text \in (IF ex_first.called THEN {ex_first.text} ELSE OcrTexts) :
                ex_text' = text
          /\ ex_pc' = "strip"
          /\ UNCHANGED <<ex_tier, ex_result>>
    /\ UNCHANGED <<ex_file, ex_route, ex_read, ex_bytes, ex_mode, ex_pos, ex_first>>
    /\ UNCHANGED <<repairVars, detectVars, chatVars, ollamaVars, factoryVars,
                   sessionVars>>

\* lines 561-571: strip, the sentinel for an empty text, return
ReturnText ==
    /\ ex_pc = "strip"
    /\ ex_result' = ExReturned(FinalText(ex_text))
    /\ ex_pc' = "done"
    /\ UNCHANGED <<ex_file, ex_route, ex_read, ex_bytes, ex_mode, ex_stages,
                   ex_tier, ex_text, ex_pos, ex_first>>
    /\ UNCHANGED <<repairVars, detectVars, chatVars, ollamaVars, factoryVars,
                   sessionVars>>

\* the caller calls extract_text once more on the same file object, without
\* touching its read position; the file and the engines are as before
CallAgain ==
    /\ ex_pc = "done"
    /\ ~ex_first.called
    /\ ex_route \in {"pdf", "image"}
    /\ ex_first' = [called |-> TRUE, result |-> ex_result, stages |-> ex_stages,
                    text |-> ex_text]
    /\ ex_pc' = "start"
    /\ ex_read' = FALSE
    /\ ex_stages' = <<>>
    /\ ex_tier' = 0
    /\ ex_text' = <<>>
    /\ ex_result' = ExPending
    /\ UNCHANGED <<ex_file, ex_route, ex_bytes, ex_mode, ex_pos>>
    /\ UNCHANGED <<repairVars, detectVars, chatVars, ollamaVars, factoryVars,
                   sessionVars>>

NextExtract ==
    \/ ExtractText
    \/ ExtractFromPdf
    \/ OpenImage
    \/ Normalise
    \/ DetectStage
    \/ PreprocessStage
    \/ OcrCall
    \/ ReturnText
    \/ CallAgain

SpecExtract == InitExtract /\ [][NextExtract]_vars


\* ========================================================================
\* Claims about Structured-Response Repair (SpecRepair)
\* ========================================================================
Blank(t) == \A i \in 1..Len(t) : t[i] \in PyWhitespace

CountIn(t, c, a, b) == Cardinality({i \in a..b : t[i] = c})

\* positions at which the nesting counter, started at the first '{', is zero
ZeroPositions(t) ==
    {k \in Find(t, LB)..Len(t) :
        CountIn(t, LB, Find(t, LB), k) = CountIn(t, RB, Find(t, LB), k)}

FirstZero(t) == CHOOSE k \in ZeroPositions(t) : \A m \in ZeroPositions(t) : k <= m

ExpectedFailure(t) ==
    IF Blank(t) THEN "EmptyResponse"
    ELSE IF Find(t, LB) = 0 THEN "NoJsonFound"
    ELSE IF ZeroPositions(t) = {} THEN "UnbalancedJson"
    ELSE IF JsonLoads(Sub(StripFences(t), Find(StripFences(t), LB),
                          FirstZero(StripFences(t)))) # "returns"
         THEN "InvalidJson"
    ELSE "none"

\* C1: for every valid JSON object x and every input made of brace-free
\* leading prose, x (optionally inside a ```json or bare ``` fence) and
\* trailing prose, the call succeeds and returns exactly x.
C1_ReturnsEmbeddedObject ==
    (rp_pc # "ready" /\ rp_x # <<>>) => rp_out = Returned(rp_x)

\* C2: failures are classified in the order EmptyResponse (blank input),
\* NoJsonFound (no '{'), UnbalancedJson (the nesting counter never returns
\* to zero), InvalidJson (the balanced span does not parse); each case has
\* its own failure and no string is returned in any of them.
C2_FailureClassification ==
    rp_pc # "ready" =>
        /\ rp_out.err = ExpectedFailure(rp_in)
        /\ rp_out.ok <=> rp_out.err = "none"
        /\ ~rp_out.ok => rp_out.val = <<>>

\* C3: the output of the repair, wrapped in a ```json fence and repaired
\* again, is the output itself (the second call succeeds with the same text).
C3_RepairIdempotent ==
    rp_pc = "refenced" => rp_re = rp_out

C3_Witness ==
    /\ rp_pc = "refenced"
    /\ rp_in = ObjNested
    /\ rp_re = Returned(ObjNested)

\* C19: whenever the repair returns, the returned string is the span of the
\* fence-stripped text from the first '{' to the first position where the
\* nesting counter (+1 on '{', -1 on '}') is back at zero; the text after
\* that position is discarded, the counter is never negative during the
\* scan, and the returned string parses as JSON.
C19_BraceScanSpan ==
    (rp_pc # "ready" /\ rp_out.ok) =>
        LET t == StripFences(rp_in)
            first == Find(t, LB)
        IN  /\ first > 0
            /\ ZeroPositions(t) # {}
            /\ rp_out.val = Sub(t, first, FirstZero(t))
            /\ Len(rp_out.val) = FirstZero(t) - first + 1
            /\ \A k \in first..FirstZero(t) :
                    CountIn(t, LB, first, k) >= CountIn(t, RB, first, k)
            /\ JsonLoads(rp_out.val) = "returns"

\* a nested object followed by text is returned without that text
C19_Witness ==
    /\ rp_pc = "done"
    /\ rp_out.ok
    /\ rp_x = ObjNested
    /\ ZeroPositions(StripFences(rp_in)) # {}
    /\ FirstZero(StripFences(rp_in)) < Len(StripFences(rp_in))
    /\ Find(rp_in, LB) > 1

\* ========================================================================
\* Claims about the receipt region detector (SpecDetect)
\* ========================================================================
NoCandidateAccepted == dt_white.kind = "image" /\ dt_best = NoBest

\* C4: the call never raises, and it returns the input unchanged if the
\* vision backend is absent, if any step of either pass raised, or if no
\* candidate region was accepted.
C4_UnchangedOnAnyError ==
    dt_pc = "done" =>
        /\ dt_out.kind # "raised"
        /\ (~dt_opencv \/ dt_errs # {} \/ NoCandidateAccepted)
                => dt_out = Unchanged(dt_image)

\* C5 (as stated): on every return path the returned image is no wider and
\* no higher than the input, and has positive width and height.
C5_NeverLargerThanInput ==
    (dt_pc = "done" /\ dt_out.kind # "raised") =>
        /\ 0 < dt_out.w /\ dt_out.w <= dt_image.W
        /\ 0 < dt_out.h /\ dt_out.h <= dt_image.H

\* C5 (amended): on every return path (a call that raises returns
\* nothing) the returned image has positive width and height; it is
\* no wider and no higher than the input on the unchanged, white-background
\* crop and bounding-box crop paths; the perspective-warped output has size
\* maxWidth x maxHeight, both above 50 and at most the image diagonal, and
\* may be wider or higher than the input.
C5_DimensionsByPath ==
    (dt_pc = "done" /\ dt_out.kind # "raised") =>
        /\ 0 < dt_out.w /\ 0 < dt_out.h
        /\ dt_out.kind # "warped" =>
              dt_out.w <= dt_image.W /\ dt_out.h <= dt_image.H
        /\ dt_out.kind = "warped" =>
              /\ dt_out.w > MinWarpSide /\ dt_out.h > MinWarpSide
              /\ dt_out.w <= ISqrt(dt_image.W * dt_image.W + dt_image.H * dt_image.H)
              /\ dt_out.h <= ISqrt(dt_image.W * dt_image.W + dt_image.H * dt_image.H)

C5_Witness ==
    /\ dt_pc = "done"
    /\ dt_out.kind = "warped"
    /\ dt_out.w > dt_image.W

\* the largest contour of threshold round t passes both tests of the pass
WhitePasses(t) ==
    LET o == dt_outs[t]
        box == BoundingRect(o.largest)
        long == Max2(box.w, box.h)
        short == Min2(box.w, box.h)
    IN  /\ o.found = "contour"
        /\ 10 * ContourArea2(o.largest) > 2 * dt_image.W * dt_image.H
        /\ 10 * ContourArea2(o.largest) < 18 * dt_image.W * dt_image.H
        /\ \/ Len(o.approx) >= 4
           \/ (short > 0 /\ 10 * long > 12 * short /\ 10 * long < 60 * short)

\* C21: the white-background pass tries its thresholds in the order 200,
\* 180, 220 and returns the crop for the first threshold whose largest
\* contour has 0.10 < area ratio < 0.90 and (at least 4 corners or an
\* aspect ratio between 1.2 and 6.0); a threshold whose contour fails a
\* test is skipped, and when no threshold passes the input is returned
\* unchanged.  (Rounds that raise, and an image whose pixel data cannot be
\* loaded, are the matter of C4.)
C21_WhitePassAcceptance ==
    (dt_pc = "white_done" /\ dt_opencv /\ dt_image.loadable) =>
        /\ WhiteThresholds = <<200, 180, 220>>
        /\ \A t \in 1..Len(WhiteThresholds) :
              (/\ WhitePasses(t)
               /\ \A k \in 1..(t - 1) : ~WhitePasses(k) /\ dt_outs[k].found # "raise")
                 => dt_white = [kind |-> "crop", raised |-> FALSE,
                                rect |-> CropWithMargin(dt_image,
                                                        BoundingRect(dt_outs[t].largest))]
        /\ (\A t \in 1..Len(WhiteThresholds) : ~WhitePasses(t))
              => dt_white.kind = "image"

\* the first threshold finds a contour above 90%, the second a triangle
\* accepted for its aspect ratio
C21_Witness ==
    /\ dt_pc = "white_done"
    /\ dt_opencv
    /\ dt_outs[1].found = "contour" /\ ~WhitePasses(1)
    /\ WhitePasses(2) /\ Len(dt_outs[2].approx) < 4
    /\ dt_white.kind = "crop"

\* C22: the crop rectangle of a bounding box (x, y, w, h) in a W x H image
\* is the box expanded by 20 pixels on every side and clamped to the image:
\* left = max(0, x-20), top = max(0, y-20), right = min(W, x+w+20),
\* bottom = min(H, y+h+20), also for boxes closer than 20 pixels to the
\* left or top edge.
C22_CropMargin ==
    (dt_pc = "white_done" /\ dt_white.kind = "crop") =>
        \A t \in 1..Len(WhiteThresholds) :
            (/\ WhitePasses(t)
             /\ \A k \in 1..(t - 1) : ~WhitePasses(k) /\ dt_outs[k].found # "raise")
              => LET box == BoundingRect(dt_outs[t].largest)
                     crop == dt_white.rect
                 IN  /\ crop.x = Max2(0, box.x - 20)
                     /\ crop.y = Max2(0, box.y - 20)
                     /\ crop.x + crop.w = Min2(dt_image.W, box.x + box.w + 20)
                     /\ crop.y + crop.h = Min2(dt_image.H, box.y + box.h + 20)

\* the rounds of the fallback pass whose contour has 0.10 < area ratio < 0.90
\* twice the area of each polygon, and its score factors for the corner
\* count and the aspect ratio
AreaTable == [o \in SelectionOutcomes |-> ContourArea2(o.largest)]

\* the factors 1.5 (exactly 4 corners) and 1.2 (1.5 < aspect ratio < 5.0),
\* each times ten
ShapeTable ==
    [o \in SelectionOutcomes |->
        LET box == BoundingRect(o.largest)
            long == Max2(box.w, box.h)
            short == Min2(box.w, box.h)
        IN  (IF Len(o.approx) = 4 THEN 15 ELSE 10)
              * (IF short > 0 /\ 10 * long > 15 * short /\ 10 * long < 50 * short
                 THEN 12 ELSE 10)]

Survivors ==
    {i \in 1..Len(dt_log) :
        /\ dt_log[i].found.found = "contour"
        /\ 10 * AreaTable[dt_log[i].found] > 2 * dt_image.W * dt_image.H
        /\ 10 * AreaTable[dt_log[i].found] < 18 * dt_image.W * dt_image.H}

\* the score of round i as the real number area_ratio x 1.5 x 1.2 x 1.3,
\* over the denominator 2000 * image_area
ScoreAt(i) ==
    AreaTable[dt_log[i].found] * ShapeTable[dt_log[i].found]
        * (IF Methods[dt_log[i].method] = "white_thresh" THEN 13 ELSE 10)

\* C23: the combinations are evaluated in the order (otsu, adaptive_small,
\* adaptive_large, white_thresh) x kernel sizes (15, 25, 30); only
\* candidates with 0.10 < area ratio < 0.90 survive; a survivor scores
\* area_ratio, x 1.5 with exactly 4 corners, x 1.2 with 1.5 < aspect ratio
\* < 5.0, x 1.3 for white_thresh; the retained candidate has the maximum
\* score of all survivors and is the first evaluated among equal scores.
C23_FallbackSelection ==
    /\ Methods = <<"otsu", "adaptive_small", "adaptive_large", "white_thresh">>
    /\ kernel_sizes = <<15, 25, 30>>
    /\ \A i \in 1..(Len(dt_log) - 1) :
          \/ dt_log[i].method < dt_log[i + 1].method
          \/ /\ dt_log[i].method = dt_log[i + 1].method
             /\ dt_log[i].kernel < dt_log[i + 1].kernel
    /\ dt_log # <<>> =>
          IF Survivors = {}
          THEN dt_best = NoBest /\ dt_score = FloatZero
          ELSE \E i \in Survivors :
                  /\ dt_best = [largest |-> dt_log[i].found.largest,
                                 approx |-> dt_log[i].found.approx]
                  /\ \A j \in Survivors :
                        /\ ScoreAt(j) <= ScoreAt(i)
                        /\ ScoreAt(j) = ScoreAt(i) => i <= j

\* the vertex of p that minimises (sign = 1) or maximises (sign = -1) the
\* value a*x + b*y, the first one in the order of p
Extreme(p, a, b, sign) ==
    p[CHOOSE i \in 1..Len(p) :
        /\ \A k \in 1..Len(p) :
              sign * (a * p[i][1] + b * p[i][2]) <= sign * (a * p[k][1] + b * p[k][2])
        /\ \A k \in 1..(i - 1) :
              sign * (a * p[k][1] + b * p[k][2]) > sign * (a * p[i][1] + b * p[i][2])]

\* int(sqrt(dx^2 + dy^2))
Truncated(a, b) ==
    CHOOSE n \in 0..1000 :
        LET d2 == (a[1] - b[1]) * (a[1] - b[1]) + (a[2] - b[2]) * (a[2] - b[2])
        IN  n * n <= d2 /\ d2 < (n + 1) * (n + 1)

\* C24: the output for the winning candidate is the perspective-warped
\* image of size maxWidth x maxHeight if and only if its polygon has
\* exactly 4 corners and maxWidth > 50 and maxHeight > 50, where maxWidth
\* and maxHeight are the larger of the two integer-truncated opposite-edge
\* lengths of the ordered corners; in every other case it is the
\* bounding-box crop with margin.  (A raising stage is the matter of C4.)
C24_RectificationChoice ==
    (dt_pc = "done" /\ dt_best # NoBest /\ "rectify" \notin dt_errs) =>
        LET tl == Extreme(dt_best.approx, 1, 1, 1)
            br == Extreme(dt_best.approx, 1, 1, -1)
            tr == Extreme(dt_best.approx, -1, 1, 1)
            bl == Extreme(dt_best.approx, -1, 1, -1)
            width == Max2(Truncated(br, bl), Truncated(tr, tl))
            height == Max2(Truncated(tr, br), Truncated(tl, bl))
            crop == CropWithMargin(dt_image, BoundingRect(dt_best.largest))
        IN  IF Len(dt_best.approx) = 4 /\ width > 50 /\ height > 50
            THEN dt_out = [kind |-> "warped", w |-> width, h |-> height]
            ELSE dt_out = [kind |-> "bbox_crop", w |-> crop.w, h |-> crop.h]

\* a winning candidate with four corners and a width of at most 50 is
\* cropped, not warped
C24_Witness ==
    /\ dt_pc = "done"
    /\ dt_best.approx = PolyNarrow
    /\ "rectify" \notin dt_errs
    /\ dt_out.kind = "bbox_crop"

\* C29: for every 4-vertex polygon with pairwise distinct vertices the
\* ordered corners (top-left = minimal x+y, top-right = minimal y-x,
\* bottom-right = maximal x+y, bottom-left = maximal y-x) are a permutation
\* of the four vertices: no vertex is given two corner roles.
C29_CornersArePermutation ==
    (/\ dt_pc \in {"rectify", "done"}
     /\ Len(dt_best.approx) = 4
     /\ Cardinality({dt_best.approx[i] : i \in 1..4}) = 4) =>
        LET rect == OrderCorners(dt_best.approx)
        IN  {rect.tl, rect.tr, rect.br, rect.bl} = {dt_best.approx[i] : i \in 1..4}

\* the white-background pass gave a crop with more than 10% of the pixels
WhiteCropRetained ==
    /\ dt_white.kind = "crop"
    /\ 10 * dt_white.rect.w * dt_white.rect.h > dt_image.W * dt_image.H

\* C20: the result of the white-background pass is returned if and only if
\* that pass produced a crop retaining more than 10% of the original pixel
\* count; the fallback pass is evaluated only when pass 1 produced no crop
\* or a crop at or below 10%.
C20_PassOrdering ==
    /\ (dt_pc = "done" /\ dt_opencv /\ dt_out.kind # "raised") =>
            (dt_out = [kind |-> "white_crop", w |-> dt_white.rect.w, h |-> dt_white.rect.h]
                <=> WhiteCropRetained)
    /\ dt_pc \in {"pass2", "combos", "rectify"} => ~WhiteCropRetained

\* ========================================================================
\* Claims about the language-model client
\* ========================================================================
\* C6: the outgoing messages of chat are the system instruction, then the
\* last min(N, 10) history entries in their original order (entries
\* N-9..N when N > 10), then the document block, then the question.
C6_ChatMessageSequence ==
    ch_pc = "sent" =>
        LET N == Len(ch_history)
            kept == IF N < 10 THEN N ELSE 10
        IN  /\ Len(ch_messages) = kept + 3
            /\ ch_messages[1].role = "system"
            /\ ch_messages[1].content.kind = "SYSTEM_PROMPT"
            /\ \A j \in 1..kept :
                  /\ ch_messages[1 + j].content = ch_history[N - kept + j].content
                  /\ ch_messages[1 + j].role =
                        (IF ch_history[N - kept + j].role = "absent"
                         THEN "user" ELSE ch_history[N - kept + j].role)
            /\ ch_messages[kept + 2] =
                  [role |-> "user", content |-> [kind |-> "DOCUMENT", n |-> ch_doc]]
            /\ ch_messages[kept + 3] =
                  [role |-> "user", content |-> [kind |-> "KYSYMYS", n |-> ch_msg]]

C6_Witness ==
    /\ ch_pc = "sent"
    /\ Len(ch_history) = 12
    /\ ch_messages[2].content.n = 3
    /\ ch_messages[11].content.n = 12

\* C8: for each OllamaService operation, any base_url and any prior state
\* of the OLLAMA_HOST override, the override when the operation finishes
\* (returning or raising) is what it was when the operation started.
C8_OverrideRestored ==
    [][\A c \in Calls :
          (ol_pc[c] # "done" /\ ol_pc'[c] = "done") => ol_env' = ol_before'[c]]_vars

C8_Witness ==
    \E c \in Calls :
        /\ ol_pc[c] = "done"
        /\ ol_result[c] = "BackendUnavailable"
        /\ ol_call[c].base_url = "http://hostB:11434"
        /\ ol_reqenv[c] = "http://hostB:11434"
        /\ ol_before[c] = "unset"
        /\ ol_env = "unset"

ConnectivityFailures == {"ConnectionError", "ConnectionText"}

\* C11: for each of chat, extract_receipt and analyze_purchases, a request
\* that fails with a connectivity failure ends in BackendUnavailable (the
\* remediation text), and any other failure of the request in the generic
\* BackendError.
C11_ConnectivityDistinguished ==
    \A c \in Calls :
        (ol_pc[c] = "done" /\ ol_call[c].backend = "ollama"
              /\ ol_failure[c] # "none") =>
            ol_result[c] = IF ol_failure[c] \in ConnectivityFailures
                           THEN "BackendUnavailable" ELSE "BackendError"

\* C12: every invocation of chat, extract_receipt or analyze_purchases on
\* either backend issues at most one backend request; a call whose request
\* failed has ended with an error after exactly one request; and every
\* completed call that got as far as its request has issued its own
\* request, also when an identical call was completed before it.
C12_OneRequestPerInvocation ==
    \A c \in Calls :
        /\ ol_requests[c] <= 1
        /\ (ol_pc[c] = "done" /\ ol_failure[c] # "none") =>
              /\ ol_requests[c] = 1
              /\ ol_result[c] \notin {"none", "returned"}
        /\ (ol_pc[c] = "done" /\ (ol_call[c].backend = "openai" \/ ol_lib)) =>
              ol_requests[c] = 1

\* the address a request goes to under the override env: the library's
\* default when the override is unset
TargetUnder(env) == IF env = "unset" THEN DefaultBaseUrl ELSE env

\* C30: every backend request of an OllamaService operation is made while
\* the OLLAMA_HOST override equals the service's configured base_url, for
\* every base_url (the default included) and every prior state of the
\* override; an unset override is taken as the default address.
C30_RequestUnderConfiguredHost ==
    \A c \in Calls :
        (ol_call[c].backend = "ollama" /\ ol_reqenv[c] # "norequest") =>
            TargetUnder(ol_reqenv[c]) = ol_call[c].base_url

\* C9: when calls with different base_url interleave at the granularity of
\* their save / set / request / restore steps, then once all of them have
\* completed the override is what it was before the first call began.
C9_NoLeakAfterInterleaving ==
    (\A c \in Calls : ol_pc[c] = "done") => ol_env = ol_env0

CasePairs == {<<LowerLetters[i], UpperLetters[i]>> : i \in 1..26}

EqualsIgnoringCase(tag, word) ==
    /\ Len(tag) = Len(word)
    /\ \A i \in 1..Len(word) : tag[i] = word[i] \/ <<word[i], tag[i]>> \in CasePairs

\* C10: create_ai_service returns a hosted service exactly when the tag is
\* "openai" (case-insensitively) with a non-empty api_key, a local service
\* exactly when the tag is "ollama" (case-insensitively), and raises, with
\* no service constructed, for every other tag and for "openai" with a
\* missing or empty api_key.
C10_FactorySelection ==
    fa_pc = "done" =>
        LET hosted == EqualsIgnoringCase(fa_tag, TagOpenAI)
                        /\ fa_kwargs.api_key \notin {"absent", ""}
            local == EqualsIgnoringCase(fa_tag, TagOllama)
        IN  /\ fa_result.class = "OpenAIService" <=> hosted
            /\ fa_result.class = "OllamaService" <=> local
            /\ fa_result.ok <=> (hosted \/ local)
            /\ ~(hosted \/ local) =>
                  /\ fa_result.class = "none"
                  /\ fa_result.error # "none"

C10_Witness ==
    /\ fa_pc = "done"
    /\ fa_tag = <<"O", "P", "E", "N", "A", "I">>
    /\ fa_kwargs.api_key = "sk-1"
    /\ fa_result.class = "OpenAIService"

\* ========================================================================
\* Claims about the stored conversation (SpecSession)
\* ========================================================================
IsPrefix(a, b) == Len(a) <= Len(b) /\ Sub(b, 1, Len(a)) = a

\* C7 (as stated): after every application action, clearing and processing
\* a document included, the history before the action is a prefix of the
\* history after it.
C7_PrefixAfterEveryAction == [][IsPrefix(chat_history, chat_history')]_vars

\* C7 (amended): the stored history is append-only between resets.  A step
\* that does not keep the old history as a prefix is a successful document
\* processing, a clearing of the document or a clearing of the conversation,
\* and it leaves the history empty; every other step (an extraction, an
\* analysis, a chat turn) keeps every stored entry.  A chat turn appends the
\* question and then the answer or the error text, or the question only
\* when its script run is ended before the answer is stored, and a request
\* it sends holds only the latest HistoryWindow entries of the history it
\* found.
C7_AppendOnlyBetweenResets ==
    [][ /\ ~IsPrefix(chat_history, chat_history') =>
             /\ chat_history' = <<>>
             /\ ProcessDocument \/ ClearDocument \/ ClearConversation
        /\ (ai_service # "None" /\ ChatInput) =>
             /\ IsPrefix(chat_history, chat_history')
             /\ Len(chat_history') \in {Len(chat_history) + 1, Len(chat_history) + 2}
             /\ chat_history'[Len(chat_history) + 1] = Entry("user", "user_input")
             /\ Len(chat_history') = Len(chat_history) + 2 =>
                   /\ chat_history'[Len(chat_history')].role = "assistant"
                   /\ sent_history' = LastEntries(chat_history)
             /\ sent_history' \in {<<>>, LastEntries(chat_history)}
      ]_vars

\* C7 witness: a chat turn on a history of more than HistoryWindow entries
\* has sent HistoryWindow of them and every entry is still stored
C7_Witness ==
    /\ Len(chat_history) >= HistoryWindow + 4
    /\ Len(sent_history) = HistoryWindow
    /\ chat_history[Len(chat_history)].role = "assistant"
    /\ sent_history = Sub(chat_history, Len(chat_history) - HistoryWindow - 1,
                          Len(chat_history) - 2)

\* ========================================================================
\* Claims about the Text Extraction Gateway (SpecExtract)
\* ========================================================================
HasPrefixIgnoringCase(text, word) ==
    Len(word) <= Len(text) /\ EqualsIgnoringCase(Sub(text, 1, Len(word)), word)

HasSuffixIgnoringCase(text, word) ==
    /\ Len(word) <= Len(text)
    /\ EqualsIgnoringCase(Sub(text, Len(text) - Len(word) + 1, Len(text)), word)

DeclaredPdf(file) ==
    EqualsIgnoringCase(file.type, PdfType) \/ HasSuffixIgnoringCase(file.name, PdfExt)

DeclaredImage(file) ==
    \/ HasPrefixIgnoringCase(file.type, ImagePrefix)
    \/ \E ext \in ImageExts : HasSuffixIgnoringCase(file.name, ext)

\* C13: extract_text sends the file to PDF extraction iff its type is
\* application/pdf or its name ends with .pdf, this test being made first;
\* otherwise to image extraction iff its type starts with image/ or its name
\* ends with an image extension (all compared in lower case); otherwise it
\* fails with the unsupported-format error, and then the file is not read
\* and no extractor stage runs.
C13_Routing ==
    ex_pc \notin {"idle", "start"} =>
        /\ ex_route = "pdf" <=> DeclaredPdf(ex_file)
        /\ ex_route = "image" <=> (~DeclaredPdf(ex_file) /\ DeclaredImage(ex_file))
        /\ ex_route = "unsupported" <=>
              (~DeclaredPdf(ex_file) /\ ~DeclaredImage(ex_file))
        /\ ex_route = "unsupported" =>
              /\ ex_pc = "done"
              /\ ex_result = ExRaised("Tiedostotyyppiä ei tueta", "none")
              /\ ~ex_read
              /\ ex_stages = <<>>
        /\ (ex_pc = "done" /\ ex_route = "pdf") =>
              (ex_stages = <<>> /\ ex_result.error \in
                  {"none", "Virhe PDF-tiedoston lukemisessa"})
        /\ (ex_pc = "done" /\ ex_route = "image") =>
              ex_result.error \notin
                  {"Tiedostotyyppiä ei tueta", "Virhe PDF-tiedoston lukemisessa"}

\* C13 witness: a file declared as an image whose name ends with .PDF has
\* gone through PDF extraction
C13_Witness ==
    /\ ex_pc = "done"
    /\ ex_route = "pdf"
    /\ ex_file = [type |-> <<"i", "m", "a", "g", "e", "/", "p", "n", "g">>,
                  name |-> <<"A", ".", "P", "D", "F">>]
    /\ ex_read
    /\ ex_result.ok

IsOcrCall(entry) == entry.stage = "image_to_string"

OcrCalls == SelectSeq(ex_stages, IsOcrCall)

\* C14: the OCR engine is invoked with the hints fin+eng, eng, none in that
\* order; a tier is invoked if and only if the tier before it raised; at
\* most three invocations occur; the text of the first tier that does not
\* raise is used; if all three raise the operation fails with the OCR
\* extraction error.
C14_LanguageFallback ==
    /\ Len(OcrCalls) <= 3
    /\ \A k \in 1..Len(OcrCalls) :
          /\ OcrCalls[k].lang = <<"fin+eng", "eng", "">>[k]
          /\ k < Len(OcrCalls) => OcrCalls[k].raised
    /\ (ex_pc \in {"strip", "done"} /\ OcrCalls # <<>>) =>
          (OcrCalls[Len(OcrCalls)].raised => Len(OcrCalls) = 3)
    /\ (ex_pc = "done" /\ OcrCalls # <<>>) =>
          IF OcrCalls[Len(OcrCalls)].raised
          THEN ex_result = ExRaised("Virhe OCR-analyysissä", "tesseract")
          ELSE /\ ex_result.ok
               /\ ex_result.text \in {Strip(ex_text), Sentinel}

\* C14 witness: the first two tiers raised and the text of the third is returned
C14_Witness ==
    /\ ex_pc = "done"
    /\ Len(OcrCalls) = 3
    /\ OcrCalls[1].raised /\ OcrCalls[2].raised /\ ~OcrCalls[3].raised
    /\ ex_text = <<NL, "a">>
    /\ ex_result = ExReturned(<<"a">>)

\* C15: whenever the image extraction returns, the text is not empty and
\* has no leading or trailing whitespace; when the OCR output holds nothing
\* but whitespace the return value is the "no text found" sentinel, never
\* the empty string and never an error.
C15_NonEmptyStrippedText ==
    (ex_pc = "done" /\ ex_route = "image") =>
        /\ ex_result.ok =>
              /\ ex_result.text # <<>>
              /\ ex_result.text[1] \notin PyWhitespace
              /\ ex_result.text[Len(ex_result.text)] \notin PyWhitespace
        /\ (OcrCalls # <<>> /\ ~OcrCalls[Len(OcrCalls)].raised) =>
              /\ ex_result.ok
              /\ Blank(ex_text) => ex_result.text = Sentinel

\* C15 witness: the OCR engine returned only whitespace and the sentinel came back
C15_Witness ==
    /\ ex_pc = "done"
    /\ ex_text = <<SP, NL>>
    /\ ex_result = ExReturned(Sentinel)

\* the messages raised for a file that is not a readable image
InvalidInputErrors ==
    {"Kuvatiedostoa ei voitu tunnistaa", "Kuvatiedostomuotoa ei tueta"}

\* C16: the image extraction of an empty byte buffer, or of bytes that
\* cannot be decoded as an image, fails with the invalid-input error, which
\* is not the error raised for failures of the OCR engine, and neither the
\* region detector, the preprocessor nor the OCR engine has been invoked.
C16_InvalidInputDistinguished ==
    (ex_pc = "done" /\ ex_bytes \in {"empty", "unidentified"}) =>
        /\ ~ex_result.ok
        /\ ex_result.error \in InvalidInputErrors
        /\ ex_result.error # "Virhe OCR-analyysissä"
        /\ ex_stages = <<>>

\* the place of a stage in the image path
StageRank(entry) ==
    CASE entry.stage = "normalise" -> 1
      [] entry.stage = "detect_and_crop_receipt" -> 2
      [] entry.stage = "preprocess_image_for_ocr" -> 3
      [] entry.stage = "image_to_string" -> 4

Min(a, b) == IF a < b THEN a ELSE b

\* C18: whatever mode the decoded image has, the image handed to the region
\* detector, to the preprocessor and to the OCR engine is RGB or grayscale,
\* and the stages run in the order normalisation, detector, preprocessor,
\* OCR engine.
C18_ColourModeInvariant ==
    \A i \in 1..Len(ex_stages) :
        /\ StageRank(ex_stages[i]) = Min(i, 4)
        /\ StageRank(ex_stages[i]) > 1 => ex_stages[i].mode \in {"RGB", "L"}

\* an alpha or palette image went through all four stages and was read
C18_Witness ==
    /\ ex_pc = "done"
    /\ ex_result.ok
    /\ Len(ex_stages) >= 4
    /\ ex_stages[1].mode \in {"RGBA", "LA", "P"}
    /\ ex_stages[Len(ex_stages)].stage = "image_to_string"
    /\ ex_stages[Len(ex_stages)].mode = "RGB"

\* ========================================================================
\* Claims about the stored receipt record (SpecSession)
\* ========================================================================
RECURSIVE StringEnd(_, _)
\* the position of the quote that closes the JSON string whose body starts at i
StringEnd(t, i) ==
    IF i > Len(t) THEN i
    ELSE IF t[i] = BS THEN StringEnd(t, i + 2)
    ELSE IF t[i] = Q THEN i
    ELSE StringEnd(t, i + 1)

\* json.decoder.BACKSLASH
Unescaped(esc) ==
    CASE esc = "b" -> "U+0008"
      [] esc = "f" -> "\f"
      [] esc = "n" -> "\n"
      [] esc = "r" -> "\r"
      [] esc = "t" -> "\t"
      [] OTHER -> esc

HexValue(c) ==
    CASE c \in {"a", "A"} -> 10
      [] c \in {"b", "B"} -> 11
      [] c \in {"c", "C"} -> 12
      [] c \in {"d", "D"} -> 13
      [] c \in {"e", "E"} -> 14
      [] c \in {"f", "F"} -> 15
      [] OTHER -> CHOOSE n \in 0..9 : Ascii[49 + n] = c

\* _decode_uXXXX: int(s[pos + 1:pos + 5], 16), pos at the "u"
DecodeUXXXX(t, pos) ==
    4096 * HexValue(t[pos + 1]) + 256 * HexValue(t[pos + 2])
        + 16 * HexValue(t[pos + 3]) + HexValue(t[pos + 4])

IsUEscape(t, i) ==
    /\ i + 5 <= Len(t)
    /\ t[i] = BS
    /\ t[i + 1] = "u"
    /\ \A k \in 2..5 : t[i + k] \in HexDigits

RECURSIVE ScanString(_, _, _)
\* scanstring: the decoded characters of the JSON string body t[i..j-1];
\* a high surrogate followed by a low surrogate makes one character
ScanString(t, i, j) ==
    IF i >= j THEN <<>>
    ELSE IF t[i] # BS THEN <<t[i]>> \o ScanString(t, i + 1, j)
    ELSE IF t[i + 1] # "u" THEN <<Unescaped(t[i + 1])>> \o ScanString(t, i + 2, j)
    ELSE LET uni == DecodeUXXXX(t, i + 1)
             uni2 == DecodeUXXXX(t, i + 7)
         IN  IF /\ 55296 <= uni /\ uni <= 56319
                /\ IsUEscape(t, i + 6)
                /\ 56320 <= uni2 /\ uni2 <= 57343
             THEN <<Chr(65536 + 1024 * (uni - 55296) + (uni2 - 56320))>>
                      \o ScanString(t, i + 12, j)
             ELSE <<Chr(uni)>> \o ScanString(t, i + 6, j)

RECURSIVE KeyScan(_, _, _)
\* json.loads(t).keys(): the decoded strings at nesting depth 1 of the JSON
\* text t that are followed by a colon
KeyScan(t, i, depth) ==
    IF i > Len(t) THEN {}
    ELSE IF t[i] = Q
         THEN LET j == StringEnd(t, i + 1)
                  after == SkipSet(t, j + 1, JsonWhitespace)
              IN  (IF depth = 1 /\ after <= Len(t) /\ t[after] = ":"
                   THEN {ScanString(t, i + 1, j)} ELSE {})
                  \cup KeyScan(t, j + 1, depth)
    ELSE IF t[i] \in {LB, "["} THEN KeyScan(t, i + 1, depth + 1)
    ELSE IF t[i] \in {RB, "]"} THEN KeyScan(t, i + 1, depth - 1)
    ELSE KeyScan(t, i + 1, depth)

TopLevelKeys(t) == KeyScan(t, 1, 0)

SchemaKeys ==
    {<<"m", "e", "r", "c", "h", "a", "n", "t">>,
     <<"r", "e", "c", "e", "i", "p", "t">>,
     <<"i", "t", "e", "m", "s">>,
     <<"t", "o", "t", "a", "l", "s">>,
     <<"v", "a", "t", "_", "b", "r", "e", "a", "k", "d", "o", "w", "n">>,
     <<"p", "a", "y", "m", "e", "n", "t">>,
     <<"v", "a", "l", "i", "d", "a", "t", "i", "o", "n", "_", "e", "r", "r", "o", "r", "s">>,
     <<"n", "o", "t", "e", "s">>}

\* C17: every receipt record the application stores holds all eight
\* top-level keys of the schema, for any model output that passes the repair.
C17_SchemaComplete ==
    receipt_data.some => SchemaKeys \subseteq TopLevelKeys(receipt_data.json)

\* C25: whenever both purchase_analysis and receipt_data are set (the state
\* in which the analysis is displayed, under "if receipt_data:"), the
\* analysis was computed from the current receipt_data; every action that
\* replaces receipt_data clears purchase_analysis.
C25_AnalysisIsFresh ==
    (purchase_analysis.some /\ ReceiptTruthy(receipt_data)) =>
        purchase_analysis.of = receipt_data.json

\* C26: chat_history has even length, every role is user or assistant, and
\* the roles alternate starting with user; a failed chat turn still stores
\* one assistant entry, the error text, after the user entry.
C26_HistoryShape ==
    /\ Len(chat_history) % 2 = 0
    /\ \A i \in 1..Len(chat_history) :
          /\ chat_history[i].role = IF i % 2 = 1 THEN "user" ELSE "assistant"
          /\ chat_history[i].content = "Virhe AI-vastauksessa" =>
                /\ i % 2 = 0
                /\ chat_history[i - 1] = Entry("user", "user_input")

\* C27: when the OCR of a manual crop fails the session is left as it was,
\* so that in every reachable state the stored document_text is the text
\* extracted from the stored receipt_image.
C27_CropIsAtomic ==
    (document_text.some /\ receipt_image.some) =>
        /\ document_text.file = receipt_image.file
        /\ document_text.crops = receipt_image.crops

\* C28: a second call of extract_text on the same file object, made without
\* resetting its read position, gives what the first call gave, on the PDF
\* path and on the image path.
C28_RepeatableExtraction ==
    (ex_first.called /\ ex_pc = "done") => ex_result = ex_first.result

====
